---- MODULE Spec2Model ----
(***************************************************************************)
(* UBeacon: the execution-state tracker (trace.c), its installation on     *)
(* existing and future threads (trace.c, ubeacon.c) and the process-wide   *)
(* undo_beacon_t record it maintains (ubeacon.h).                          *)
(*                                                                         *)
(* Pointers are modelled as naturals with NULL = 0.  A C string is an      *)
(* index into StrTab (its bytes); a frame is an index into the frame heap. *)
(***************************************************************************)
EXTENDS Integers, Sequences, FiniteSets, TLC

\* ------------------------------------------------------------------ bounds
MaxDepth == 3

\* --------------------------------------------------------------- constants
NULL == 0

MainThread == 1
Threads == {1, 2}

\* Deepest Python stack a thread reaches in the model.
DepthLimit(t) == MaxDepth

\* The frame heap: enough objects for every stack plus frames kept alive
\* only by references (the tracker's, a traceback's).
FrameIds == 1..(2 * MaxDepth + 1)

\* ------------------------------------------------------- strings and codes
\* Byte strings the run can meet: "f", "g", "a.py", "settrace",
\* "threading.py", "E", "<module>", "<string>", "__repr__".
StrTab == << <<102>>, <<103>>, <<97, 46, 112, 121>>,
             <<115, 101, 116, 116, 114, 97, 99, 101>>,
             <<116, 104, 114, 101, 97, 100, 105, 110, 103, 46, 112, 121>>,
             <<69>>,
             <<60, 109, 111, 100, 117, 108, 101, 62>>,
             <<60, 115, 116, 114, 105, 110, 103, 62>>,
             <<95, 95, 114, 101, 112, 114, 95, 95>> >>
StrPtrs == 1..Len(StrTab)

\* Code objects: co_name / co_filename are unicode objects.  PyUnicode_AsUTF8
\* yields a pointer to the bytes, or NULL (with an encoding error set) when
\* the object cannot be encoded (e.g. a lone surrogate): entry 0.
CodeTab == << [co_name |-> 1, co_filename |-> 3],
              [co_name |-> 2, co_filename |-> 3],
              [co_name |-> 0, co_filename |-> 3],
              [co_name |-> 4, co_filename |-> 5],
              [co_name |-> 7, co_filename |-> 8],
              [co_name |-> 9, co_filename |-> 3] >>
UserCodes == {1, 2, 3}
\* The function each thread runs where threads are told apart.
ThreadCode == <<1, 2>>
SettraceCode == 4
\* The code PyRun_String compiles an expression to, and the __repr__ method
\* of the program's class.
EvalCode == 5
ReprCode == 6

PyUnicode_AsUTF8(u) == u

\* ------------------------------------------------------------ 64-bit words
\* A uint64_t is kept as its eight bytes, least significant first, so that
\* no intermediate value leaves TLC's integer range.
U64Zero == <<0, 0, 0, 0, 0, 0, 0, 0>>

RECURSIVE BitXor(_, _, _)
BitXor(a, b, n) ==
    IF n = 0 THEN 0
    ELSE ((a + b) % 2) + 2 * BitXor(a \div 2, b \div 2, n - 1)

\* (uint64_t)c for a char c: sign-extended where char is signed.
CharToU64(c, char_signed) ==
    LET high == IF char_signed /\ c >= 128 THEN 255 ELSE 0
    IN <<c, high, high, high, high, high, high, high>>

RECURSIVE XorFrom(_, _, _)
XorFrom(x, y, i) ==
    IF i > 8 THEN <<>> ELSE <<BitXor(x[i], y[i], 8)>> \o XorFrom(x, y, i + 1)

U64Xor(x, y) == XorFrom(x, y, 1)

\* x * k modulo 2^64 for a small k (k * 255 + carry stays small).
RECURSIVE MulSmall(_, _, _, _)
MulSmall(x, k, i, carry) ==
    IF i > 8 THEN <<>>
    ELSE LET v == x[i] * k + carry
         IN <<v % 256>> \o MulSmall(x, k, i + 1, v \div 256)

RECURSIVE AddU64(_, _, _, _)
AddU64(x, y, i, carry) ==
    IF i > 8 THEN <<>>
    ELSE LET v == x[i] + y[i] + carry
         IN <<v % 256>> \o AddU64(x, y, i + 1, v \div 256)

\* x << 40 modulo 2^64: five bytes up.
Shl40(x) == <<0, 0, 0, 0, 0, x[1], x[2], x[3]>>

\* 0xcbf29ce484222325
FnvOffset == <<37, 35, 34, 132, 228, 156, 242, 203>>
\* 0x100000001b3 = 2^40 + 0x1b3
FnvPrimeLow == 435
MulPrime(x) == AddU64(Shl40(x), MulSmall(x, FnvPrimeLow, 1, 0), 1, 0)

\* The loop of s_ubeacon_simple_hash from byte i on, hash being the value so
\* far.  (The value of each iteration is computed once, as h.)
RECURSIVE HashFrom(_, _, _, _)
HashFrom(hash, bytes, i, char_signed) ==
    IF i > Len(bytes) THEN hash
    ELSE HashFrom(CHOOSE r \in {MulPrime(U64Xor(h, CharToU64(bytes[i], char_signed))) :
                                   h \in {hash}} : TRUE,
                  bytes, i + 1, char_signed)

HashBytes(bytes, char_signed) == HashFrom(FnvOffset, bytes, 1, char_signed)

\* Every string of the run is ASCII, so the table does not depend on the
\* signedness of char; computed once.
RECURSIVE HashAll(_)
HashAll(p) ==
    IF p > Len(StrTab) THEN <<>> ELSE <<HashBytes(StrTab[p], TRUE)>> \o HashAll(p + 1)

HashTab == HashAll(1)

s_ubeacon_simple_hash(data_str) ==
    IF data_str = NULL THEN U64Zero ELSE HashTab[data_str]


\* ------------------------------------------------------------------- state
VARIABLES
    interp,          \* interp[t]: interpreter owning thread state t, 0 = no such thread
    tstate_current,  \* the thread state that is current (holds the execution lock)
    c_tracefunc,     \* c_tracefunc[t]: what PyEval_SetTrace installed on t
    trace_hook,      \* threading._trace_hook
    stack,           \* stack[t]: frames executing on t, outermost first
    heap,            \* frame objects: f_back, f_code, f_lineno
    exc,             \* the exception propagating, with its traceback
    s_ubeacon,       \* the undo_beacon_t instance of ubeacon.c
    tracker_refs,    \* tracker_refs[f]: Py_INCREFs less Py_DECREFs by trace.c on frame f
    setup,           \* where ubeacon_trace_setup() is, and for which caller
    last,            \* the event dispatched last and what the callbacks did, or the
                     \* start() or stop() that returned since
    aborted,         \* assert() has ended the process
    NDEBUG,          \* whether the build defines NDEBUG (assert() compiled away)
    initialized,     \* Py_IsInitialized()
    lists,           \* lists[l]: the list objects of the program: ob_item, items
    input,           \* what a query is given: the chain file, or a dict and a key
    q                \* the query made last and the file it wrote

vars == <<interp, tstate_current, c_tracefunc, trace_hook, stack, heap, exc,
          s_ubeacon, tracker_refs, setup, last, aborted, NDEBUG, initialized, lists, input, q>>

\* What the queries of interact.c and the program's list operations add to
\* the state.
qvars == <<initialized, lists, input, q>>

Interpreters == <<1, 2>>

FreeFrame == [f_back |-> NULL, f_code |-> 0, f_lineno |-> 0]
NoExc == [thread |-> 0, tb |-> <<>>]
NoArg == [shape |-> "null", type |-> "none", tb |-> <<>>]

\* static undo_beacon_t s_ubeacon: zero-initialised.
BeaconInit ==
    [current_file |-> NULL, current_func |-> NULL,
     current_file_id |-> U64Zero, current_line |-> 0, current_func_id |-> U64Zero,
     current_frame |-> NULL, current_depth |-> 0, first_line |-> FALSE,
     exception_origin |-> FALSE, exception_info |-> NoArg,
     exception_type |-> NULL, exception_type_id |-> U64Zero]

ubeacon_get == s_ubeacon

\* What code running on thread t gets from ubeacon_get().
StateReadOn(t) == ubeacon_get

\* ------------------------------------------------------------ frame access
PyFrame_GetBack(h, f) == h[f].f_back
PyFrame_GetCode(h, f) == CodeTab[h[f].f_code]
PyFrame_GetLineNumber(h, f) == h[f].f_lineno

Inc(f) == <<"incref", f>>
Dec(f) == <<"decref", f>>

\* The two exception records an event can touch, named apart from the frames:
\* the one exception_info holds when the event begins, and the tuple the
\* runtime builds for this event and hands as arg (a new object each time).
HeldRecord == 2 * MaxDepth + 2
ArgRecord == 2 * MaxDepth + 3

\* The frame counts after the operations of log (operations on exception
\* records are kept in the log only).
RECURSIVE ApplyLog(_, _, _)
ApplyLog(refs, log, i) ==
    IF i > Len(log) THEN refs
    ELSE ApplyLog(IF log[i][2] \in DOMAIN refs
                  THEN [refs EXCEPT ![log[i][2]] =
                            IF log[i][1] = "incref" THEN @ + 1 ELSE @ - 1]
                  ELSE refs,
                  log, i + 1)

\* ------------------------------------------------- s_calculate_stack_depth
\* The loop from `frame` on: depth counted and the reference operations in
\* program order.  PyFrame_GetBack returns a new reference.
RECURSIVE DepthLoop(_, _, _)
DepthLoop(h, top_level, frame) ==
    IF frame = NULL THEN [depth |-> 0, log |-> <<>>]
    ELSE LET back == PyFrame_GetBack(h, frame)
             rest == DepthLoop(h, top_level, back)
         IN [depth |-> 1 + rest.depth,
             log |-> (IF frame # top_level THEN <<Dec(frame)>> ELSE <<>>)
                     \o (IF back # NULL THEN <<Inc(back)>> ELSE <<>>)
                     \o rest.log]

\* A walk that starts at the caller of top_level.
s_calculate_stack_depth_from_back(h, top_level) ==
    DepthLoop(h, top_level, PyFrame_GetBack(h, top_level))

s_calculate_stack_depth(h, top_level) == DepthLoop(h, top_level, top_level)

\* -------------------------------------------------------- s_exception_type
TypeName(type) == IF type = "named" THEN 6 ELSE NULL

s_exception_type(exc_info) ==
    IF exc_info.shape = "nottuple"
    THEN [result |-> NULL, err |-> "TypeError"]
    ELSE IF exc_info.shape # "tuple3"
    THEN [result |-> NULL, err |-> "RuntimeError"]
    ELSE IF TypeName(exc_info.type) = NULL
    THEN [result |-> NULL, err |-> "RuntimeError"]
    ELSE [result |-> PyUnicode_AsUTF8(TypeName(exc_info.type)), err |-> "none"]

\* --------------------------------------------------- s_is_exception_origin
\* A traceback is the sequence of its entries' tb_frame, head first; entry
\* i's tb_next is entry i + 1, or None after the last.  `next` is an index
\* into it, Len + 1 standing for None.
RECURSIVE OriginLoop(_, _, _, _)
OriginLoop(tb, next, frame, log) ==
    IF next > Len(tb) THEN [frame |-> frame, log |-> log]
    ELSE LET next2 == next + 1
             dropped == IF frame # NULL THEN <<Dec(frame)>> ELSE <<>>
         IN IF next2 <= Len(tb)
            THEN OriginLoop(tb, next2, tb[next2], log \o dropped \o <<Inc(tb[next2])>>)
            ELSE OriginLoop(tb, next2, NULL, log \o dropped)

\* A variant that finds the traceback's last frame and does not compare it
\* with the current frame.
s_is_exception_origin_uncompared(exc_info, current_frame) ==
    IF exc_info.shape = "nottuple"
    THEN [is_origin |-> FALSE, err |-> "TypeError", log |-> <<>>]
    ELSE IF exc_info.shape # "tuple3"
    THEN [is_origin |-> FALSE, err |-> "RuntimeError", log |-> <<>>]
    ELSE IF exc_info.tb = <<>>
    THEN [is_origin |-> FALSE, err |-> "AttributeError", log |-> <<>>]
    ELSE LET w == OriginLoop(exc_info.tb, 2, exc_info.tb[1], <<Inc(exc_info.tb[1])>>)
         IN [is_origin |-> (w.frame # NULL), err |-> "none",
             log |-> w.log \o (IF w.frame # NULL THEN <<Dec(w.frame)>> ELSE <<>>)]

s_is_exception_origin(exc_info, current_frame) ==
    IF exc_info.shape = "nottuple"
    THEN [is_origin |-> FALSE, err |-> "TypeError", log |-> <<>>]
    ELSE IF exc_info.shape # "tuple3"
    THEN [is_origin |-> FALSE, err |-> "RuntimeError", log |-> <<>>]
    ELSE IF exc_info.tb = <<>>
    \* the traceback is None: both attribute fetches fail
    THEN [is_origin |-> (NULL = current_frame), err |-> "AttributeError", log |-> <<>>]
    ELSE LET w == OriginLoop(exc_info.tb, 2, exc_info.tb[1], <<Inc(exc_info.tb[1])>>)
         IN [is_origin |-> (w.frame = current_frame), err |-> "none",
             log |-> w.log \o (IF w.frame # NULL THEN <<Dec(w.frame)>> ELSE <<>>)]

\* ----------------------------------------------------- s_trace_entry_point
Errs(seq) ==
    LET set == {i \in 1..Len(seq) : seq[i] # "none"}
    IN IF set = {} THEN "none" ELSE seq[CHOOSE i \in set : \A j \in set : j <= i]

Hook(name, b) == [hook |-> name, at |-> b]

\* A variant that releases the frame held before it acquires the new one.
HoldFrame_release_first(b, frame) ==
    (IF b.current_frame # NULL THEN <<Dec(b.current_frame)>> ELSE <<>>) \o <<Inc(frame)>>

\* Py_INCREF(frame) and Py_XDECREF(current_frame), in program order.
HoldFrame(b, frame) ==
    <<Inc(frame)>> \o (IF b.current_frame # NULL THEN <<Dec(b.current_frame)>> ELSE <<>>)

\* A variant that sets the names only while none is recorded.
Overwrite_names_once(b, depth, filename, func_name, line, frame) ==
    [b EXCEPT !.current_depth = depth,
              !.current_file = IF @ = NULL THEN filename ELSE @,
              !.current_func = IF @ = NULL THEN func_name ELSE @,
              !.current_file_id = s_ubeacon_simple_hash(filename),
              !.current_line = line,
              !.current_frame = frame,
              !.current_func_id = s_ubeacon_simple_hash(func_name),
              !.exception_origin = FALSE,
              !.exception_info = NoArg,
              !.exception_type = NULL,
              !.exception_type_id = U64Zero]

\* A variant that leaves the line and the depth of the event before.
Overwrite_keep_position(b, depth, filename, func_name, line, frame) ==
    [b EXCEPT !.current_file = filename,
              !.current_func = func_name,
              !.current_file_id = s_ubeacon_simple_hash(filename),
              !.current_frame = frame,
              !.current_func_id = s_ubeacon_simple_hash(func_name),
              !.exception_origin = FALSE,
              !.exception_info = NoArg,
              !.exception_type = NULL,
              !.exception_type_id = U64Zero]

\* A variant that sets the field to NULL without releasing the record.
ReleaseException_forgotten(b) == <<>>

\* Py_XDECREF(ubeacon_get()->exception_info) before the field is set to NULL.
ReleaseException(b) ==
    IF b.exception_info # NoArg THEN <<Dec(HeldRecord)>> ELSE <<>>

\* case PyTrace_EXCEPTION: the Py_DECREF guarded by exception_info != NULL,
\* then Py_INCREF(arg).
AcquireException(b1) ==
    (IF b1.exception_info # NoArg THEN <<Dec(HeldRecord)>> ELSE <<>>) \o <<Inc(ArgRecord)>>

\* The assignments every event makes to the fields of the ExecutionState.
Overwrite(b, depth, filename, func_name, line, frame) ==
    [b EXCEPT !.current_depth = depth,
              !.current_file = filename,
              !.current_func = func_name,
              !.current_file_id = s_ubeacon_simple_hash(filename),
              !.current_line = line,
              !.current_frame = frame,
              !.current_func_id = s_ubeacon_simple_hash(func_name),
              !.exception_origin = FALSE,
              !.exception_info = NoArg,
              !.exception_type = NULL,
              !.exception_type_id = U64Zero]

\* What the callback hands back when it returns: the beacon and the
\* tracker's counts after, its reference operations and the hooks it called
\* in program order, and the error indicator it left.
Done(b, refs, log, hooks, err) ==
    [b |-> b, refs |-> ApplyLog(refs, log, 1), log |-> log, hooks |-> hooks,
     err |-> err, aborted |-> FALSE, ret |-> 0]

\* case PyTrace_EXCEPTION, from the beacon b1 the assignments left.
TraceException(b1, refs, log1, frame, arg, err0) ==
    CHOOSE r \in
        {CHOOSE out \in
             {Done(b_exc, refs, log1 \o AcquireException(b1) \o origin.log,
                   <<Hook("s_ubeacon_trace_exception", b_exc)>>,
                   Errs(<<err0, origin.err, etype.err>>)) :
                 b_exc \in {[b1 EXCEPT
                                !.exception_origin = origin.is_origin,
                                !.exception_info = arg,
                                !.exception_type = etype.result,
                                !.exception_type_id = s_ubeacon_simple_hash(etype.result)]}} :
             TRUE :
            origin \in {s_is_exception_origin(arg, frame)},
            etype \in {s_exception_type(arg)}} : TRUE

\* A variant whose return case keeps current_frame and its reference.
TraceSwitch_keep_frame(b1, refs, log1, frame, what, arg, err0) ==
    CASE what = "line" ->
         Done([b1 EXCEPT !.first_line = FALSE], refs, log1,
              <<Hook("s_ubeacon_trace_line", b1)>>, err0)
      [] what = "return" ->
         Done(b1, refs, log1, <<Hook("s_ubeacon_trace_ret", b1)>>, err0)
      [] what = "call" ->
         Done([b1 EXCEPT !.first_line = TRUE], refs, log1,
              <<Hook("s_ubeacon_trace_call", b1)>>, err0)
      [] what = "exception" -> TraceException(b1, refs, log1, frame, arg, err0)
      [] OTHER -> Done(b1, refs, log1, <<>>, err0)

\* A variant that calls the line hook for an event of any other kind too.
TraceSwitch_default_hook(b1, refs, log1, frame, what, arg, err0) ==
    CASE what = "line" ->
         Done([b1 EXCEPT !.first_line = FALSE], refs, log1,
              <<Hook("s_ubeacon_trace_line", b1)>>, err0)
      [] what = "return" ->
         Done([b1 EXCEPT !.current_frame = NULL], refs, log1 \o <<Dec(frame)>>,
              <<Hook("s_ubeacon_trace_ret", b1)>>, err0)
      [] what = "call" ->
         Done([b1 EXCEPT !.first_line = TRUE], refs, log1,
              <<Hook("s_ubeacon_trace_call", b1)>>, err0)
      [] what = "exception" -> TraceException(b1, refs, log1, frame, arg, err0)
      [] OTHER -> Done(b1, refs, log1, <<Hook("s_ubeacon_trace_line", b1)>>, err0)

\* A variant that clears first_line before it calls the line hook.
TraceSwitch_clear_first(b1, refs, log1, frame, what, arg, err0) ==
    CASE what = "line" ->
         Done([b1 EXCEPT !.first_line = FALSE], refs, log1,
              <<Hook("s_ubeacon_trace_line", [b1 EXCEPT !.first_line = FALSE])>>, err0)
      [] what = "return" ->
         Done([b1 EXCEPT !.current_frame = NULL], refs, log1 \o <<Dec(frame)>>,
              <<Hook("s_ubeacon_trace_ret", b1)>>, err0)
      [] what = "call" ->
         Done([b1 EXCEPT !.first_line = TRUE], refs, log1,
              <<Hook("s_ubeacon_trace_call", b1)>>, err0)
      [] what = "exception" -> TraceException(b1, refs, log1, frame, arg, err0)
      [] OTHER -> Done(b1, refs, log1, <<>>, err0)

\* switch (what), from the beacon b1 the assignments left.
TraceSwitch(b1, refs, log1, frame, what, arg, err0) ==
    CASE what = "line" ->
         Done([b1 EXCEPT !.first_line = FALSE], refs, log1,
              <<Hook("s_ubeacon_trace_line", b1)>>, err0)
      [] what = "return" ->
         Done([b1 EXCEPT !.current_frame = NULL], refs, log1 \o <<Dec(frame)>>,
              <<Hook("s_ubeacon_trace_ret", b1)>>, err0)
      [] what = "call" ->
         Done([b1 EXCEPT !.first_line = TRUE], refs, log1,
              <<Hook("s_ubeacon_trace_call", b1)>>, err0)
      [] what = "exception" -> TraceException(b1, refs, log1, frame, arg, err0)
      [] OTHER -> Done(b1, refs, log1, <<>>, err0)

\* The callback on (frame, what, arg) from beacon b with the tracker's
\* reference counts refs.  An assertion that fails ends the process
\* (aborted) unless the build defines NDEBUG.
s_trace_entry_point(b, refs, h, ndebug, frame, what, arg) ==
    CHOOSE r \in
        {IF (func_name = NULL \/ filename = NULL) /\ ndebug # "defined"
         THEN \* assert(func_name != NULL) / assert(filename != NULL)
              [b |-> b, refs |-> ApplyLog(refs, walk.log, 1), log |-> walk.log,
               hooks |-> <<>>, err |-> "UnicodeEncodeError", aborted |-> TRUE, ret |-> -1]
         ELSE CHOOSE out \in
                  {TraceSwitch(b1, refs,
                               walk.log \o HoldFrame(b, frame) \o ReleaseException(b),
                               frame, what, arg,
                               IF func_name = NULL \/ filename = NULL
                               THEN "UnicodeEncodeError" ELSE "none") :
                      b1 \in {Overwrite(b, walk.depth, filename, func_name,
                                        PyFrame_GetLineNumber(h, frame), frame)}} : TRUE :
            walk \in {s_calculate_stack_depth(h, frame)},
            func_name \in {PyUnicode_AsUTF8(PyFrame_GetCode(h, frame).co_name)},
            filename \in {PyUnicode_AsUTF8(PyFrame_GetCode(h, frame).co_filename)}} : TRUE


\* ------------------------------------------------------------- the runtime
Top(t) == stack[t][Len(stack[t])]
Running(t) == interp[t] # 0 /\ stack[t] # <<>>

SeqToSet(sq) == {sq[i] : i \in 1..Len(sq)}

RECURSIVE Closure(_, _)
Closure(h, set) ==
    LET more == set \cup ({h[f].f_back : f \in set} \ {NULL})
    IN IF more = set THEN set ELSE Closure(h, more)

\* Frames some reference keeps alive: executing, held by the tracker, named
\* by a traceback (the propagating one, or the one of exc_info the beacon
\* holds), and the f_back of each of these.
Alive(h, stk, refs, e, b) ==
    Closure(h, UNION {SeqToSet(stk[t]) : t \in Threads}
               \cup {f \in FrameIds : refs[f] > 0}
               \cup SeqToSet(e.tb) \cup SeqToSet(b.exception_info.tb))

Collect(h, stk, refs, e, b) ==
    LET alive == Alive(h, stk, refs, e, b)
    IN [f \in FrameIds |-> IF f \in alive THEN h[f] ELSE FreeFrame]

\* The references to frame f its owners hold: the thread it runs on, the
\* frames it is the f_back of, and the tracebacks that name it.
OwnerCount(h, stk, e, b, f) ==
    Cardinality({t \in Threads : f \in SeqToSet(stk[t])})
    + Cardinality({g \in FrameIds : h[g].f_back = f})
    + Cardinality({i \in 1..Len(e.tb) : e.tb[i] = f})
    + Cardinality({i \in 1..Len(b.exception_info.tb) : b.exception_info.tb[i] = f})

\* ubeacon's code released more references to a frame than it acquired and
\* the frame's count reached zero with it: the frame was deallocated while
\* in use.
FreedEarly(h, stk, refs, e, b) ==
    \E f \in FrameIds : refs[f] < 0 /\ OwnerCount(h, stk, e, b, f) + refs[f] <= 0

FreeIds == {f \in FrameIds : heap[f] = FreeFrame}
NewFrame == CHOOSE f \in FreeIds : \A g \in FreeIds : f <= g

\* PyEval_SetTrace(func, NULL) acts on the current thread state.
\* A variant that adds func to what is installed.
PyEval_SetTrace_added(ctf, cur, func) ==
    [ctf EXCEPT ![cur] = IF func = "NULL" THEN <<>> ELSE @ \o <<func>>]

PyEval_SetTrace(ctf, cur, func) ==
    [ctf EXCEPT ![cur] = IF func = "NULL" THEN <<>> ELSE <<func>>]

\* Thread states in the order the two nested loops visit them.
RECURSIVE ThreadsOf(_, _, _)
ThreadsOf(itp, i, t) ==
    IF t < 1 THEN <<>>
    ELSE (IF t \in Threads /\ itp[t] = i THEN <<t>> ELSE <<>>) \o ThreadsOf(itp, i, t - 1)

RECURSIVE ThreadList(_, _)
ThreadList(itp, k) ==
    IF k > Len(Interpreters) THEN <<>>
    ELSE ThreadsOf(itp, Interpreters[k], Cardinality(Threads)) \o ThreadList(itp, k + 1)

\* ------------------------------------------------ s_trace_existing_threads
RECURSIVE ExistingLoop(_, _, _, _)
ExistingLoop(ctf, cur, list, i) ==
    IF i > Len(list) THEN [ctf |-> ctf, cur |-> cur, e |-> 0]
    ELSE LET prev_thread_state == cur
             swapped == list[i]
             ctf2 == PyEval_SetTrace(ctf, swapped, "s_trace_entry_point")
         IN ExistingLoop(ctf2, prev_thread_state, list, i + 1)

\* A variant that installs on the current thread state only.
s_trace_existing_threads_current_only(ctf, itp, cur) ==
    [ctf |-> PyEval_SetTrace(ctf, cur, "s_trace_entry_point"), cur |-> cur, e |-> 0]

s_trace_existing_threads(ctf, itp, cur) == ExistingLoop(ctf, cur, ThreadList(itp, 1), 1)

\* ---------------------------------------------- s_trace_python_entry_point
\* A variant that installs the tracker on the thread that called it only.
s_trace_python_entry_point_caller_only(ctf, itp, cur) ==
    [ctf |-> PyEval_SetTrace(ctf, cur, "s_trace_entry_point"), cur |-> cur, e |-> 0]

s_trace_python_entry_point(ctf, itp, cur) == s_trace_existing_threads(ctf, itp, cur)

\* --------------------------------------------------------- event dispatch
\* The runtime calls what is installed on thread t with (frame, what, arg).
\* m carries the beacon, the tracker's counts, the installations and the
\* account of this event.
Fresh(b, refs, ctf, cur, ndebug) ==
    [b |-> b, refs |-> refs, ctf |-> ctf, cur |-> cur, ndebug |-> ndebug, aborted |-> FALSE,
     calls |-> 0, hooks |-> <<>>, log |-> <<>>, err |-> "none", ret |-> 0]

CallOne(m, func, h, frame, what, arg) ==
    IF func = "s_trace_entry_point"
    THEN CHOOSE m2 \in
             {[m EXCEPT !.b = r.b, !.refs = r.refs, !.aborted = r.aborted,
                        !.calls = @ + 1, !.hooks = @ \o r.hooks, !.log = @ \o r.log,
                        !.err = r.err, !.ret = r.ret] :
                 r \in {s_trace_entry_point(m.b, m.refs, h, m.ndebug, frame, what, arg)}} : TRUE
    ELSE \* the sys.settrace trampoline a new thread starts with: on a call
         \* event it calls threading._trace_hook, which returns None
         IF what = "call" /\ trace_hook[interp[m.cur]] = "ubeacon_trace_fn"
         THEN CHOOSE m2 \in
                  {[m EXCEPT !.ctf = r.ctf, !.cur = r.cur] :
                      r \in {s_trace_python_entry_point(m.ctf, interp, m.cur)}} : TRUE
         ELSE m

RECURSIVE CallAll(_, _, _, _, _, _, _)
CallAll(m, funcs, i, h, frame, what, arg) ==
    IF i > Len(funcs) \/ m.aborted THEN m
    ELSE CHOOSE out \in
             {CallAll(m2, funcs, i + 1, h, frame, what, arg) :
                 m2 \in {CallOne(m, funcs[i], h, frame, what, arg)}} : TRUE

Dispatch(m, t, h, frame, what, arg) ==
    CallAll([m EXCEPT !.calls = 0, !.hooks = <<>>, !.log = <<>>, !.err = "none", !.ret = 0],
            m.ctf[t], 1, h, frame, what, arg)

\* The record of an event: the thread, frame and kind, the code the frame
\* runs, the calls open on the thread when it fired (the frame's included),
\* and what the callbacks did: the number of times s_trace_entry_point was
\* entered, the hooks it called, its reference operations, the error
\* indicator and the value it returned with.
Event(m, t, h, frame, what, open) ==
    [thread |-> t, frame |-> frame, code |-> h[frame].f_code, what |-> what, open |-> open,
     calls |-> m.calls, hooks |-> m.hooks, log |-> m.log, err |-> m.err, ret |-> m.ret]

NoEvent ==
    [thread |-> 0, frame |-> NULL, code |-> 0, what |-> "none", open |-> 0, calls |-> 0,
     hooks |-> <<>>, log |-> <<>>, err |-> "none", ret |-> 0]

\* In place of an event: stop() and start() returning to their caller t.
Stopped(t) == [NoEvent EXCEPT !.thread = t, !.what = "stop"]
Started(t) == [NoEvent EXCEPT !.thread = t, !.what = "start"]

\* starts: how many start() calls have run both steps, counted to StartsSeen.
StartsSeen == 2
SetupIdle == [pc |-> "idle", caller |-> 0, e |-> 0, start |-> "none", starts |-> 0]

CanRun(t) == ~aborted /\ initialized /\ setup.pc = "idle" /\ interp[t] # 0

\* The build is one of two; which one shows when an assertion first fails.
\* Until then NDEBUG is "any", and the event on which it shows fixes it.
Builds == {"defined", "not_defined"}
Asserts(h, frame) ==
    LET code == PyFrame_GetCode(h, frame)
    IN PyUnicode_AsUTF8(code.co_name) = NULL \/ PyUnicode_AsUTF8(code.co_filename) = NULL
BuildsAt(t, h, frame) ==
    IF NDEBUG = "any" /\ c_tracefunc[t] = <<"s_trace_entry_point">> /\ Asserts(h, frame)
    THEN Builds ELSE {NDEBUG}

\* What an event on thread t leaves: the callback's effects, then the
\* runtime's own change of stack and heap.  Once a frame was deallocated
\* while in use the behaviour is undefined: the run is followed no further.
Deliver(t, h, stk, e, frame, what, arg, open) ==
    \E build \in BuildsAt(t, h, frame) :
    \E m \in {Dispatch(Fresh(s_ubeacon, tracker_refs, c_tracefunc, t, build),
                       t, h, frame, what, arg)} :
       /\ s_ubeacon' = m.b
       /\ NDEBUG' = build
       /\ tracker_refs' = m.refs
       /\ c_tracefunc' = m.ctf
       /\ tstate_current' = m.cur
       /\ aborted' = (m.aborted \/ FreedEarly(h, stk, m.refs, e, m.b))
       /\ last' = Event(m, t, h, frame, what, open)
       /\ stack' = stk
       /\ exc' = e
       /\ heap' = Collect(h, stk, m.refs, e, m.b)
       /\ UNCHANGED <<qvars, interp, trace_hook, setup>>

Push(stk, t, f) == [stk EXCEPT ![t] = Append(@, f)]
Pop(stk, t) == [stk EXCEPT ![t] = SubSeq(@, 1, Len(@) - 1)]

\* A Python function is called on thread t, from a line of the body of the
\* running function: a frame for code c is pushed and the call event fires
\* in it.
PyCall(t, c) ==
    /\ CanRun(t) /\ exc.thread # t
    /\ Len(stack[t]) < DepthLimit(t)
    /\ FreeIds # {}
    /\ stack[t] # <<>> => heap[Top(t)].f_lineno = 2
    /\ LET f == NewFrame
           h == [heap EXCEPT ![f] = [f_back |-> IF stack[t] = <<>> THEN NULL ELSE Top(t),
                                     f_code |-> c, f_lineno |-> 1]]
       IN Deliver(t, h, Push(stack, t, f), exc, f, "call", NoArg, Len(stack[t]) + 1)

\* The top frame of t reaches a new line.
PyLine(t) ==
    /\ CanRun(t) /\ exc.thread # t
    /\ stack[t] # <<>>
    /\ LET f == Top(t)
           h == [heap EXCEPT ![f].f_lineno = 2]
       IN Deliver(t, h, stack, exc, f, "line", NoArg, Len(stack[t]))

\* The top frame of t, which has f_trace_opcodes set, reaches an
\* instruction: an event of a kind the callback's switch has no case for.
PyOpcode(t) ==
    /\ CanRun(t) /\ exc.thread # t
    /\ stack[t] # <<>>
    /\ Deliver(t, heap, stack, exc, Top(t), "opcode", NoArg, Len(stack[t]))

\* The top frame of t returns (or is unwound by the propagating exception):
\* the return event fires in it, then it is popped.
PyReturn(t) ==
    /\ CanRun(t)
    /\ stack[t] # <<>>
    /\ LET f == Top(t)
           e == IF exc.thread = t /\ Len(stack[t]) = 1 THEN NoExc ELSE exc
       IN Deliver(t, heap, Pop(stack, t), e, f, "return", NoArg, Len(stack[t]))


\* ---------------------------------------------------------------- raising
\* The exc_info handed with an exception event: the 3-tuple the runtime
\* builds, and what a caller of the callback can hand instead.
ExcInfo(type, tb) == [shape |-> "tuple3", type |-> type, tb |-> tb]
OddArgs == {ExcInfo("noname", <<>>), ExcInfo("named", <<>>),
            [shape |-> "tuple2", type |-> "none", tb |-> <<>>],
            [shape |-> "nottuple", type |-> "none", tb |-> <<>>]}

TbLimit == MaxDepth - 1

\* An exception is raised in the top frame of t; the traceback records it.
PyRaise(t, type) ==
    /\ CanRun(t) /\ exc = NoExc
    /\ stack[t] # <<>>
    /\ LET f == Top(t)
           e == [thread |-> t, tb |-> <<f>>]
       IN Deliver(t, heap, stack, e, f, "exception", ExcInfo(type, e.tb), Len(stack[t]))

\* The same, the callback being handed something else than a 3-tuple with a
\* named type and a traceback.
PyRaiseOdd(t, arg) ==
    /\ CanRun(t) /\ exc = NoExc
    /\ stack[t] # <<>>
    /\ LET f == Top(t)
           e == [thread |-> t, tb |-> <<f>>]
       IN Deliver(t, heap, stack, e, f, "exception", arg, Len(stack[t]))

\* The propagating exception reaches the top frame of t (after its callee
\* was unwound, or re-raised in the frame that raised it): the exception
\* event fires there, with the traceback extended by the frame or as it was.
PyPropagate(t, extend) ==
    /\ CanRun(t) /\ exc.thread = t
    /\ stack[t] # <<>>
    /\ extend => Len(exc.tb) < TbLimit
    /\ LET f == Top(t)
           e == [exc EXCEPT !.tb = IF extend THEN <<f>> \o @ ELSE @]
       IN Deliver(t, heap, stack, e, f, "exception", ExcInfo("named", e.tb), Len(stack[t]))

\* An except clause of the top frame catches the exception.
PyHandle(t) ==
    /\ CanRun(t) /\ exc.thread = t
    /\ exc' = NoExc
    /\ heap' = Collect(heap, stack, tracker_refs, NoExc, s_ubeacon)
    /\ tstate_current' = t
    /\ UNCHANGED <<qvars, interp, c_tracefunc, trace_hook, stack, s_ubeacon, tracker_refs,
                   setup, last, aborted, NDEBUG>>

\* ---------------------------------------------------------------- threads
\* A thread state is created in interpreter i: by the threading module,
\* whose bootstrap installs threading._trace_hook with sys.settrace, or by
\* other means.
NewThread(t, i, via) ==
    /\ ~aborted /\ setup.pc = "idle"
    /\ interp[t] = 0
    /\ interp' = [interp EXCEPT ![t] = i]
    /\ c_tracefunc' = [c_tracefunc EXCEPT ![t] =
           IF via = "threading" /\ trace_hook[i] = "ubeacon_trace_fn"
           THEN <<"trampoline">> ELSE <<>>]
    /\ UNCHANGED <<qvars, tstate_current, trace_hook, stack, heap, exc, s_ubeacon, tracker_refs,
                   setup, last, aborted, NDEBUG>>

\* ------------------------------------------------------------ start / stop
FutureOutcomes == {"ok", "import_failed", "settrace_not_found", "settrace_not_callable",
                   "wrap_failed", "call_failed"}

\* s_trace_future_threads: 0 when threading.settrace(ubeacon_trace_fn) was
\* called, -1 with an exception set otherwise.
s_trace_future_threads(outcome) == IF outcome = "ok" THEN 0 ELSE -1

\* The value ubeacon_trace_setup returns at `out`, e being what the failed
\* or last step returned.
ubeacon_trace_setup_return(e) == 0

\* s_ubeacon_start: NULL when ubeacon_trace_setup reports an error.
s_ubeacon_start_return(e) == IF e # 0 THEN "NULL" ELSE "Py_None"

Returned(e) ==
    [pc |-> "idle", caller |-> 0, e |-> e,
     start |-> s_ubeacon_start_return(ubeacon_trace_setup_return(e)),
     starts |-> IF e = 0 /\ setup.starts < StartsSeen THEN setup.starts + 1
                ELSE setup.starts]

\* A variant that goes to the existing threads first.
ubeacon_trace_setup_existing_first(t) ==
    /\ CanRun(t) /\ exc.thread # t
    /\ stack[t] # <<>>
    /\ FreeIds # {}
    /\ setup' = [setup EXCEPT !.pc = "existing", !.caller = t, !.e = 0, !.start = "none"]
    /\ tstate_current' = t
    /\ UNCHANGED <<qvars, interp, c_tracefunc, trace_hook, stack, heap, exc, s_ubeacon,
                   tracker_refs, last, aborted, NDEBUG>>

\* start() is called from Python code on thread t: ubeacon_trace_setup is
\* entered and takes the execution lock.
ubeacon_trace_setup(t) ==
    /\ CanRun(t) /\ exc.thread # t
    /\ stack[t] # <<>>
    /\ FreeIds # {}
    /\ setup' = [setup EXCEPT !.pc = "future", !.caller = t, !.e = 0, !.start = "none"]
    /\ tstate_current' = t
    /\ UNCHANGED <<qvars, interp, c_tracefunc, trace_hook, stack, heap, exc, s_ubeacon,
                   tracker_refs, last, aborted, NDEBUG>>

\* The three events of the Python function threading.settrace running on
\* the caller's thread, for whatever is installed there.
SettraceEvents(t) ==
    LET f == NewFrame
        h1 == [heap EXCEPT ![f] = [f_back |-> Top(t), f_code |-> SettraceCode, f_lineno |-> 1]]
        h2 == [h1 EXCEPT ![f].f_lineno = 2]
        m0 == Fresh(s_ubeacon, tracker_refs, c_tracefunc, t, NDEBUG)
    IN CHOOSE r \in
           {[m |-> m3, h |-> h2, f |-> f] :
               m3 \in {Dispatch(m2, t, h2, f, "return", NoArg) :
                          m2 \in {Dispatch(m1, t, h2, f, "line", NoArg) :
                                     m1 \in {Dispatch(m0, t, h1, f, "call", NoArg)}}}} : TRUE

\* The first step of ubeacon_trace_setup.
FutureStep(outcome) ==
    /\ ~aborted /\ setup.pc = "future"
    /\ LET t == setup.caller
           e == s_trace_future_threads(outcome)
       IN IF e # 0
          THEN /\ setup' = Returned(e)
               /\ last' = Started(t)
               /\ UNCHANGED <<trace_hook, s_ubeacon, tracker_refs, heap>>
          ELSE \E r \in {SettraceEvents(t)} :
                  /\ setup' = [setup EXCEPT !.pc = "existing"]
                  /\ trace_hook' = [trace_hook EXCEPT ![interp[t]] = "ubeacon_trace_fn"]
                  /\ s_ubeacon' = r.m.b
                  /\ tracker_refs' = r.m.refs
                  /\ last' = IF c_tracefunc[t] = <<>> THEN last
                             ELSE Event(r.m, t, r.h, r.f, "return", Len(stack[t]) + 1)
                  /\ heap' = Collect(r.h, stack, r.m.refs, exc, r.m.b)
    /\ UNCHANGED <<qvars, interp, tstate_current, c_tracefunc, stack, exc, aborted, NDEBUG>>

\* The second step, and the return to start()'s caller.
ExistingStep ==
    /\ ~aborted /\ setup.pc = "existing"
    /\ \E r \in {s_trace_existing_threads(c_tracefunc, interp, tstate_current)} :
          /\ c_tracefunc' = r.ctf
          /\ tstate_current' = r.cur
          /\ setup' = Returned(r.e)
          /\ last' = Started(setup.caller)
    /\ UNCHANGED <<qvars, interp, trace_hook, stack, heap, exc, s_ubeacon, tracker_refs,
                   aborted, NDEBUG>>

\* A variant that removes the tracker from every thread.
s_ubeacon_stop_everywhere(t) ==
    /\ CanRun(t) /\ exc.thread # t
    /\ stack[t] # <<>>
    /\ c_tracefunc' = [u \in Threads |-> <<>>]
    /\ tstate_current' = t
    /\ last' = Stopped(t)
    /\ UNCHANGED <<qvars, interp, trace_hook, stack, heap, exc, s_ubeacon, tracker_refs, setup,
                   aborted, NDEBUG>>

\* stop() is called from Python code on thread t.
s_ubeacon_stop(t) ==
    /\ CanRun(t) /\ exc.thread # t
    /\ stack[t] # <<>>
    /\ c_tracefunc' = PyEval_SetTrace(c_tracefunc, t, "NULL")
    /\ tstate_current' = t
    /\ last' = Stopped(t)
    /\ UNCHANGED <<qvars, interp, trace_hook, stack, heap, exc, s_ubeacon, tracker_refs, setup,
                   aborted, NDEBUG>>

\* ---------------------------------------------------------- Python objects
\* A value is the address of an object: NULL, a list, a dict, an instance,
\* or one of the integers 10, 20, ...  An address inside an object is a
\* tuple <<array, base, index>>.
NoAddr == <<>>

ListIds == {1}
DictIds == {2, 4, 5}
InstanceIds == {3}
ListsInit == [l \in ListIds |-> [ob_item |-> 100, items |-> <<10, 2, 30>>]]

PyList_Check(v) == v \in ListIds
PyDict_Check(v) == v \in DictIds

\* The key object of a dict entry: me_key is NULL, a str, a str that
\* PyUnicode_AsUTF8 cannot encode, or an object of another type.
NullKey == [ob_type |-> "NULL", utf8 |-> "", encodable |-> FALSE]
Str(s) == [ob_type |-> "str", utf8 |-> s, encodable |-> TRUE]
Surrogate == [ob_type |-> "str", utf8 |-> "", encodable |-> FALSE]
IntKey == [ob_type |-> "int", utf8 |-> "", encodable |-> FALSE]

PyUnicode_Check(key) == key.ob_type = "str"

\* k = PyUnicode_AsUTF8(key); k && strcmp(k, key_str) == 0
KeyIs(key, key_str) == key.encodable /\ key.utf8 = key_str

\* A PyDictObject: the runtime it was built for, ma_keys with dk_kind (0
\* general, 1 unicode, 2 split) and the entries, and ma_values (ptr NULL
\* for a combined table).
NoValues == [ptr |-> NULL, values |-> <<>>]
NoDict == [py |-> "3.11", ma_keys |-> NULL, dk_kind |-> 0, dk_entries |-> <<>>,
           ma_values |-> NoValues]

\* The loop over the dk_nentries entries, read with the given entry layout.
RECURSIVE EntryLoop(_, _, _, _)
EntryLoop(dict, key_str, layout, i) ==
    IF i > Len(dict.dk_entries) THEN NoAddr
    ELSE LET key == dict.dk_entries[i].me_key
         IN IF key.ob_type = "NULL" \/ ~PyUnicode_Check(key)
            THEN EntryLoop(dict, key_str, layout, i + 1)
            ELSE IF KeyIs(key, key_str)
                 THEN IF dict.ma_values.ptr # NULL
                      THEN <<"values", dict.ma_values.ptr, i>>
                      ELSE <<layout, dict.ma_keys, i>>
                 ELSE EntryLoop(dict, key_str, layout, i + 1)

s_dict_value_addr(dict, key_str) ==
    IF dict.py = "3.11"
    THEN IF dict.dk_kind = 0
         THEN EntryLoop(dict, key_str, "PyDictKeyEntry", 1)
         ELSE EntryLoop(dict, key_str, "PyDictUnicodeEntry", 1)
    ELSE EntryLoop(dict, key_str, "PyDictKeyEntry", 1)

\* The runtime's own dict: the layout its entries have, where the value of
\* entry i is kept, and the lookup of a C string key.
EntryLayout(dict) ==
    IF dict.py = "3.11" /\ dict.dk_kind # 0 THEN "PyDictUnicodeEntry" ELSE "PyDictKeyEntry"

ValueSlot(dict, i) ==
    IF dict.ma_values.ptr # NULL THEN <<"values", dict.ma_values.ptr, i>>
    ELSE <<EntryLayout(dict), dict.ma_keys, i>>

ValueAt(dict, i) ==
    IF dict.ma_values.ptr # NULL THEN dict.ma_values.values[i]
    ELSE dict.dk_entries[i].me_value

EntriesOf(dict, key_str) ==
    {i \in 1..Len(dict.dk_entries) : dict.dk_entries[i].me_key = Str(key_str)}

PyDict_GetItemString(dict, key_str) ==
    IF EntriesOf(dict, key_str) = {} THEN NULL
    ELSE ValueAt(dict, CHOOSE i \in EntriesOf(dict, key_str) : TRUE)

\* ------------------------------------------------------------- the dicts
\* The dicts s_dict_value_addr is applied to: up to MaxEntries entries with
\* the keys "a", "b", ... in this order, each entry set, unset (deleted from
\* a combined table, or a key of the shared keys this dict has no value
\* for), or odd (a key that is not a str, or a str that cannot be encoded).
MaxEntries == 3
KeyNames == <<"a", "b", "c", "d", "e">>
EntryStates == {"set", "unset", "odd"}
DictForms == {[py |-> "3.11", dk_kind |-> 0, split |-> FALSE],
              [py |-> "3.11", dk_kind |-> 1, split |-> FALSE],
              [py |-> "3.11", dk_kind |-> 2, split |-> TRUE],
              [py |-> "3.10", dk_kind |-> 0, split |-> FALSE],
              [py |-> "3.10", dk_kind |-> 0, split |-> TRUE]}

EntryOf(form, i, st) ==
    [me_key |-> IF st = "odd"
                THEN IF form.dk_kind = 0 /\ ~form.split THEN IntKey ELSE Surrogate
                ELSE IF st = "unset" /\ ~form.split THEN NullKey
                ELSE Str(KeyNames[i]),
     me_value |-> IF form.split \/ st = "unset" THEN NULL ELSE 10 * i]

RECURSIVE EntriesFrom(_, _, _)
EntriesFrom(form, p, i) ==
    IF i > Len(p) THEN <<>> ELSE <<EntryOf(form, i, p[i])>> \o EntriesFrom(form, p, i + 1)

RECURSIVE ValuesFrom(_, _)
ValuesFrom(p, i) ==
    IF i > Len(p) THEN <<>>
    ELSE <<IF p[i] = "unset" THEN NULL ELSE 10 * i>> \o ValuesFrom(p, i + 1)

DictOf(form, p) ==
    [py |-> form.py, ma_keys |-> 900, dk_kind |-> form.dk_kind,
     dk_entries |-> EntriesFrom(form, p, 1),
     ma_values |-> IF form.split THEN [ptr |-> 901, values |-> ValuesFrom(p, 1)]
                   ELSE NoValues]

RECURSIVE SeqsOfLen(_, _)
SeqsOfLen(S, n) ==
    IF n = 0 THEN {<<>>} ELSE {Append(p, x) : p \in SeqsOfLen(S, n - 1), x \in S}

Dicts ==
    {DictOf(form, p) : form \in DictForms,
                       p \in UNION {SeqsOfLen(EntryStates, n) : n \in 0..MaxEntries}}

LookupKeys == {KeyNames[i] : i \in 1..(MaxEntries + 1)}

\* --------------------------------------------------- the program's objects
\* The program the chains are resolved in: f has the fast locals x, bound
\* to the list 1, and u, not bound yet; the list holds an int, the dict 2
\* and an int; the module's globals, the dict 5, bind g to the instance 3,
\* whose __dict__ is the split table 4 and whose attribute s is a slot.  The
\* instance's class has a property p (a data descriptor, which attribute
\* lookup prefers to the instance's dict) whose getter gives 40, and the
\* instance's dict has an entry p of its own, 50.
Entry(key, value) == [me_key |-> key, me_value |-> value]

DictTab(d) ==
    CASE d = 2 -> [py |-> "3.11", ma_keys |-> 200, dk_kind |-> 1,
                   dk_entries |-> <<Entry(Str("a"), 10), Entry(NullKey, NULL),
                                    Entry(Str("b"), 20)>>,
                   ma_values |-> NoValues]
      [] d = 4 -> [py |-> "3.11", ma_keys |-> 400, dk_kind |-> 2,
                   dk_entries |-> <<Entry(Str("a"), NULL), Entry(Str("b"), NULL),
                                    Entry(Str("p"), NULL)>>,
                   ma_values |-> [ptr |-> 401, values |-> <<10, NULL, 50>>]]
      [] OTHER -> [py |-> "3.11", ma_keys |-> 500, dk_kind |-> 1,
                   dk_entries |-> <<Entry(Str("g"), 3), Entry(Str("x"), 10)>>,
                   ma_values |-> NoValues]

PyObject_GetAttrString(obj, attr_name) ==
    IF obj \notin InstanceIds THEN NULL
    ELSE CASE attr_name = "__dict__" -> 4
           [] attr_name = "s" -> 30
           [] attr_name = "p" -> 40
           [] OTHER -> PyDict_GetItemString(DictTab(4), attr_name)

PyObject_HasAttrString(obj, attr_name) == PyObject_GetAttrString(obj, attr_name) # NULL

co_varnames(code) == IF code = 1 THEN <<"x", "u", "o">> ELSE <<>>
localsplus(frame, idx) == IF idx = 0 THEN 1 ELSE IF idx = 2 THEN 3 ELSE NULL

\* PyEval_GetGlobals on the thread the query runs on.
PyEval_GetGlobals == IF stack[tstate_current] # <<>> THEN 5 ELSE NULL

\* ------------------------------------------------------------ chain files
\* A cJSON item of a step object: absent, a string or a number.
JAbsent == [t |-> "absent", s |-> "", n |-> 0]
JString(str) == [t |-> "string", s |-> str, n |-> 0]
JNumber(num) == [t |-> "number", s |-> "", n |-> num]
cJSON_IsString(item) == item.t = "string"
cJSON_IsNumber(item) == item.t = "number"

NoStep == [type |-> JAbsent, name |-> JAbsent, index |-> JAbsent, key |-> JAbsent]
NameOf(name) == [NoStep EXCEPT !.type = JString("name"), !.name = JString(name)]
IndexOf(index) == [NoStep EXCEPT !.type = JString("index"), !.index = JNumber(index)]
KeyOf(key) == [NoStep EXCEPT !.type = JString("key"), !.key = JString(key)]
AttrOf(name) == [NoStep EXCEPT !.type = JString("attr"), !.name = JString(name)]

ValidSteps == {NameOf("x"), NameOf("g"), NameOf("zz"), IndexOf(1), IndexOf(9), KeyOf("b"),
               AttrOf("a"), AttrOf("s")}

\* Steps that are not well formed: no type, a type that is not a string,
\* an unknown type, and a missing or wrongly typed name, index or key.
InvalidSteps == {NoStep,
                 [NoStep EXCEPT !.type = JNumber(1), !.name = JString("x")],
                 [NoStep EXCEPT !.type = JString("slice"), !.index = JNumber(1)],
                 [NoStep EXCEPT !.type = JString("name"), !.name = JNumber(1)],
                 [NoStep EXCEPT !.type = JString("index"), !.index = JString("1")],
                 [NoStep EXCEPT !.type = JString("key")],
                 [NoStep EXCEPT !.type = JString("attr"), !.name = JNumber(1)]}

\* The chains: up to MaxChain steps, the invalid ones of one kind per chain.
MaxChain == 3
Chains ==
    UNION {SeqsOfLen(ValidSteps \cup {bad}, n) : bad \in InvalidSteps, n \in 0..MaxChain}

\* ---------------------------------------------------------------- queries
\* What a query is given.
NoInput == [kind |-> "none", dict |-> NoDict, key |-> "", chain |-> <<>>,
            data_str |-> <<>>, char_signed |-> FALSE]

\* What a query leaves: the operation, what it computed and what it wrote.
\* written counts the documents printed to the file, wellformed tells that
\* what the file holds is a document of the query's format (or nothing),
\* events counts the trace events of Python code the query ran, and ub tells
\* that the query's behaviour was undefined.
NoQuery == [op |-> "none", addr |-> NoAddr, written |-> 0, wellformed |-> TRUE, ub |-> FALSE,
            walked |-> FALSE, links |-> <<>>, made |-> <<>>, cursors |-> <<>>,
            frames |-> <<>>, items |-> <<>>, events |-> 0, hash |-> U64Zero,
            err |-> "none", fopen |-> 0, fclose |-> 0, ensure |-> 0, release |-> 0]

\* The query leaves the function: it opened its file and, unless the
\* process died on the way (outcome "crash"), closed it; ensure and release
\* count its calls of PyGILState_Ensure and PyGILState_Release.
Exit(res, outcome, ensure, release) ==
    [res EXCEPT !.fopen = 1, !.fclose = IF outcome = "crash" THEN 0 ELSE 1,
                !.ensure = ensure, !.release = IF outcome = "crash" THEN 0 ELSE release]

\* The variables of the runtime and the tracker.
tvars == <<interp, tstate_current, c_tracefunc, trace_hook, stack, heap, exc,
           s_ubeacon, tracker_refs, setup, last, aborted, NDEBUG>>

\* s_dict_value_addr applied to a dict and a key.
DictLookup(dict, key_str) ==
    /\ ~aborted
    /\ q' = [NoQuery EXCEPT !.op = "s_dict_value_addr",
                            !.addr = s_dict_value_addr(dict, key_str)]
    /\ UNCHANGED <<tvars, initialized, lists, input>>

\* ------------------------------------------------------------ s_make_link
\* A link object: storage_addr and guard_addr are null for the address 0.
s_make_link(storage_addr, current_value, link_type, guard_addr) ==
    [storage_addr |-> storage_addr, current_value |-> current_value,
     link_type |-> link_type, guard_addr |-> guard_addr]

\* ------------------------------------- s_ubeacon_interact_resolve_watch_chain
\* The loop's state: current_obj and the links array, with an account of
\* the loop: the steps the links were made for and current_obj as each
\* step left it.
ChainStart == [current_obj |-> NULL, links |-> <<>>, made |-> <<>>, cursors |-> <<>>,
               err |-> "none"]

\* PyErr_Clear() on the error indicator.
PyErr_Clear(err) == "none"

\* The end of an iteration: with a link added for step i, or with none.
Linked(a, i, link, value) ==
    [current_obj |-> value, links |-> Append(a.links, link), made |-> Append(a.made, i),
     cursors |-> Append(a.cursors, value), err |-> a.err]
Unlinked(a, value) == [a EXCEPT !.current_obj = value, !.cursors = Append(@, value)]

\* The search of the code's variable names: the index, -1 when not found.
RECURSIVE VarLoop(_, _, _)
VarLoop(varnames, name, j) ==
    IF j >= Len(varnames) THEN -1
    ELSE IF varnames[j + 1] = name THEN j ELSE VarLoop(varnames, name, j + 1)

\* A variant that looks the identifier up in the globals first.
NameStep_globals_first(a, i, step, env) ==
    IF ~cJSON_IsString(step.name) THEN Unlinked(a, a.current_obj)
    ELSE LET name == step.name.s
             idx == VarLoop(co_varnames(env.code), name, 0)
         IN IF env.globals # NULL /\ PyDict_GetItemString(DictTab(env.globals), name) # NULL
            THEN Linked(a, i, s_make_link(s_dict_value_addr(DictTab(env.globals), name),
                                          PyDict_GetItemString(DictTab(env.globals), name),
                                          "global", NoAddr),
                        PyDict_GetItemString(DictTab(env.globals), name))
            ELSE IF idx >= 0
                 THEN Linked(a, i, s_make_link(<<"localsplus", env.frame, idx>>,
                                               localsplus(env.frame, idx), "local", NoAddr),
                             localsplus(env.frame, idx))
                 ELSE Unlinked(a, a.current_obj)

NameStep(a, i, step, env) ==
    IF ~cJSON_IsString(step.name) THEN Unlinked(a, a.current_obj)
    ELSE LET name == step.name.s
             idx == VarLoop(co_varnames(env.code), name, 0)
         IN IF idx >= 0
            THEN Linked(a, i, s_make_link(<<"localsplus", env.frame, idx>>,
                                          localsplus(env.frame, idx), "local", NoAddr),
                        localsplus(env.frame, idx))
            ELSE IF env.globals # NULL /\ PyDict_GetItemString(DictTab(env.globals), name) # NULL
                 THEN Linked(a, i, s_make_link(s_dict_value_addr(DictTab(env.globals), name),
                                               PyDict_GetItemString(DictTab(env.globals), name),
                                               "global", NoAddr),
                             PyDict_GetItemString(DictTab(env.globals), name))
                 ELSE Unlinked(a, a.current_obj)

\* A variant that gives the link of a list element no guard address.
IndexStep_no_guard(a, i, step, env) ==
    IF ~cJSON_IsNumber(step.index) \/ a.current_obj = NULL THEN Unlinked(a, a.current_obj)
    ELSE LET index == step.index.n
         IN IF PyList_Check(a.current_obj) /\ index >= 0
                  /\ index < Len(env.lists[a.current_obj].items)
            THEN Linked(a, i, s_make_link(<<"ob_item", env.lists[a.current_obj].ob_item, index>>,
                                          env.lists[a.current_obj].items[index + 1], "list_item",
                                          NoAddr),
                        env.lists[a.current_obj].items[index + 1])
            ELSE Unlinked(a, a.current_obj)

\* A variant that loses current_obj when the index is out of range.
IndexStep_clearing(a, i, step, env) ==
    IF ~cJSON_IsNumber(step.index) \/ a.current_obj = NULL THEN Unlinked(a, a.current_obj)
    ELSE LET index == step.index.n
             list == env.lists[a.current_obj]
         IN IF PyList_Check(a.current_obj) /\ index >= 0 /\ index < Len(list.items)
            THEN Linked(a, i, s_make_link(<<"ob_item", list.ob_item, index>>,
                                          list.items[index + 1], "list_item",
                                          <<"PyListObject.ob_item", a.current_obj, 0>>),
                        list.items[index + 1])
            ELSE Unlinked(a, NULL)

\* A variant that counts a negative index from the end of the list.
IndexStep_from_end(a, i, step, env) ==
    IF ~cJSON_IsNumber(step.index) \/ a.current_obj = NULL THEN Unlinked(a, a.current_obj)
    ELSE LET list == env.lists[a.current_obj]
             index == IF step.index.n < 0 THEN step.index.n + Len(list.items)
                      ELSE step.index.n
         IN IF PyList_Check(a.current_obj) /\ index >= 0 /\ index < Len(list.items)
            THEN Linked(a, i, s_make_link(<<"ob_item", list.ob_item, index>>,
                                          list.items[index + 1], "list_item",
                                          <<"PyListObject.ob_item", a.current_obj, 0>>),
                        list.items[index + 1])
            ELSE Unlinked(a, a.current_obj)

IndexStep(a, i, step, env) ==
    IF ~cJSON_IsNumber(step.index) \/ a.current_obj = NULL THEN Unlinked(a, a.current_obj)
    ELSE LET index == step.index.n
         IN IF PyList_Check(a.current_obj) /\ index >= 0
                  /\ index < Len(env.lists[a.current_obj].items)
            THEN Linked(a, i, s_make_link(<<"ob_item", env.lists[a.current_obj].ob_item, index>>,
                                          env.lists[a.current_obj].items[index + 1], "list_item",
                                          <<"PyListObject.ob_item", a.current_obj, 0>>),
                        env.lists[a.current_obj].items[index + 1])
            ELSE Unlinked(a, a.current_obj)

\* A variant that calls the link of a dict value "dict_attr".
KeyStep_as_attr(a, i, step, env) ==
    IF ~cJSON_IsString(step.key) \/ a.current_obj = NULL THEN Unlinked(a, a.current_obj)
    ELSE IF PyDict_Check(a.current_obj)
               /\ PyDict_GetItemString(DictTab(a.current_obj), step.key.s) # NULL
         THEN Linked(a, i, s_make_link(s_dict_value_addr(DictTab(a.current_obj), step.key.s),
                                       PyDict_GetItemString(DictTab(a.current_obj), step.key.s),
                                       "dict_attr", NoAddr),
                     PyDict_GetItemString(DictTab(a.current_obj), step.key.s))
         ELSE Unlinked(a, a.current_obj)

KeyStep(a, i, step, env) ==
    IF ~cJSON_IsString(step.key) \/ a.current_obj = NULL THEN Unlinked(a, a.current_obj)
    ELSE IF PyDict_Check(a.current_obj)
               /\ PyDict_GetItemString(DictTab(a.current_obj), step.key.s) # NULL
         THEN Linked(a, i, s_make_link(s_dict_value_addr(DictTab(a.current_obj), step.key.s),
                                       PyDict_GetItemString(DictTab(a.current_obj), step.key.s),
                                       "dict_key", NoAddr),
                     PyDict_GetItemString(DictTab(a.current_obj), step.key.s))
         ELSE Unlinked(a, a.current_obj)

\* A variant that leaves the AttributeError of a failed fetch set.
AttrStep_uncleared(a, i, step, env) ==
    IF ~cJSON_IsString(step.name) \/ a.current_obj = NULL THEN Unlinked(a, a.current_obj)
    ELSE LET attr_name == step.name.s
             value == PyObject_GetAttrString(a.current_obj, attr_name)
             obj_dict == IF PyObject_HasAttrString(a.current_obj, "__dict__")
                         THEN PyObject_GetAttrString(a.current_obj, "__dict__") ELSE NULL
         IN IF value = NULL
            THEN [Unlinked(a, a.current_obj) EXCEPT !.err = "AttributeError"]
            ELSE IF obj_dict # NULL /\ PyDict_Check(obj_dict)
                       /\ PyDict_GetItemString(DictTab(obj_dict), attr_name) # NULL
                 THEN Linked(a, i, s_make_link(s_dict_value_addr(DictTab(obj_dict), attr_name),
                                               value, "dict_attr", NoAddr), value)
                 ELSE Linked(a, i, s_make_link(NoAddr, value, "slot_attr", NoAddr), value)

\* A fetch that fails sets AttributeError, which PyErr_Clear() removes.
AttrStep(a, i, step, env) ==
    IF ~cJSON_IsString(step.name) \/ a.current_obj = NULL THEN Unlinked(a, a.current_obj)
    ELSE LET attr_name == step.name.s
             value == PyObject_GetAttrString(a.current_obj, attr_name)
             obj_dict == IF PyObject_HasAttrString(a.current_obj, "__dict__")
                         THEN PyObject_GetAttrString(a.current_obj, "__dict__") ELSE NULL
         IN IF value = NULL
            THEN [Unlinked(a, a.current_obj) EXCEPT !.err = PyErr_Clear("AttributeError")]
            ELSE IF obj_dict # NULL /\ PyDict_Check(obj_dict)
                       /\ PyDict_GetItemString(DictTab(obj_dict), attr_name) # NULL
                 THEN Linked(a, i, s_make_link(s_dict_value_addr(DictTab(obj_dict), attr_name),
                                               value, "dict_attr", NoAddr), value)
                 ELSE Linked(a, i, s_make_link(NoAddr, value, "slot_attr", NoAddr), value)

\* One iteration of the loop, for step i of the chain.
ResolveStep(a, i, step, env) ==
    IF ~cJSON_IsString(step.type) THEN Unlinked(a, a.current_obj)
    ELSE CASE step.type.s = "name" -> NameStep(a, i, step, env)
           [] step.type.s = "index" -> IndexStep(a, i, step, env)
           [] step.type.s = "key" -> KeyStep(a, i, step, env)
           [] step.type.s = "attr" -> AttrStep(a, i, step, env)
           [] OTHER -> Unlinked(a, a.current_obj)

\* A variant that leaves the loop at the first step without a string type.
RECURSIVE ResolveLoop_break(_, _, _, _)
ResolveLoop_break(a, chain, i, env) ==
    IF i > Len(chain) \/ ~cJSON_IsString(chain[i].type) THEN a
    ELSE CHOOSE r \in {ResolveLoop_break(a2, chain, i + 1, env) :
                          a2 \in {ResolveStep(a, i, chain[i], env)}} : TRUE

RECURSIVE ResolveLoop(_, _, _, _)
ResolveLoop(a, chain, i, env) ==
    IF i > Len(chain) THEN a
    ELSE CHOOSE r \in {ResolveLoop(a2, chain, i + 1, env) :
                          a2 \in {ResolveStep(a, i, chain[i], env)}} : TRUE

\* The query: the chain file is input; the result file gets one object
\* with the links, which are none when the runtime is not initialized, the
\* chain file cannot be read or parsed, or there is no current frame.
s_ubeacon_interact_resolve_watch_chain ==
    /\ ~aborted /\ setup.pc = "idle"
    /\ input.kind \in {"chain", "unreadable", "unparseable"}
    /\ IF ~initialized \/ input.kind # "chain"
       THEN q' = Exit([NoQuery EXCEPT !.op = "resolve_watch_chain", !.written = 1],
                      "done", 0, 0)
       ELSE IF ubeacon_get.current_frame = NULL
       THEN q' = Exit([NoQuery EXCEPT !.op = "resolve_watch_chain", !.written = 1],
                      "fail_gil", 1, 1)
       ELSE \E r \in {ResolveLoop(ChainStart, input.chain, 1,
                                  [frame |-> ubeacon_get.current_frame,
                                   code |-> heap[ubeacon_get.current_frame].f_code,
                                   lists |-> lists, globals |-> PyEval_GetGlobals])} :
               q' = Exit([NoQuery EXCEPT !.op = "resolve_watch_chain", !.written = 1,
                                         !.walked = TRUE, !.links = r.links, !.made = r.made,
                                         !.cursors = r.cursors, !.err = r.err],
                         "fail_gil", 1, 1)
    /\ UNCHANGED <<tvars, initialized, lists, input>>

\* ------------------------------------------------------------------- spec
Boot ==
    /\ interp = [t \in Threads |-> IF t = MainThread THEN 1 ELSE 0]
    /\ tstate_current = MainThread
    /\ c_tracefunc = [t \in Threads |-> <<>>]
    /\ trace_hook = [i \in SeqToSet(Interpreters) |-> "NULL"]
    /\ stack = [t \in Threads |-> <<>>]
    /\ heap = [f \in FrameIds |-> FreeFrame]
    /\ exc = NoExc
    /\ s_ubeacon = BeaconInit
    /\ tracker_refs = [f \in FrameIds |-> 0]
    /\ setup = SetupIdle
    /\ last = NoEvent
    /\ aborted = FALSE
    /\ NDEBUG = "any"
    /\ initialized = TRUE
    /\ lists = ListsInit
    /\ q = NoQuery

Init == Boot /\ input = NoInput

\* Code whose name cannot be encoded makes no calls.
Calls(t) == stack[t] # <<>> => PyUnicode_AsUTF8(PyFrame_GetCode(heap, Top(t)).co_name) # NULL

\* The program run: f calls g calls f ..., and at each depth the function
\* called may be one whose name cannot be encoded instead.
CodesAt(depth) == {IF depth % 2 = 1 THEN 1 ELSE 2, 3}

\* One thread: the main thread runs Python code to depth MaxDepth, raises
\* and handles exceptions, and calls start() once, at any point of the run;
\* the import of threading succeeds.
Next ==
    \/ \E c \in CodesAt(Len(stack[MainThread]) + 1) : Calls(MainThread) /\ PyCall(MainThread, c)
    \/ PyLine(MainThread)
    \/ PyOpcode(MainThread)
    \/ PyReturn(MainThread)
    \/ PyRaise(MainThread, "named")
    \/ \E arg \in OddArgs : PyRaiseOdd(MainThread, arg)
    \/ \E extend \in BOOLEAN : PyPropagate(MainThread, extend)
    \/ PyHandle(MainThread)
    \/ setup.starts = 0 /\ ubeacon_trace_setup(MainThread)
    \/ FutureStep("ok")
    \/ ExistingStep

Spec == Init /\ [][Next]_vars

\* Several threads in several interpreters: threads are created, run one
\* Python function at a time, and call start() and stop().
NextThreads ==
    \/ \E t \in Threads : stack[t] = <<>> /\ PyCall(t, ThreadCode[t])
    \/ \E t \in Threads : PyLine(t)
    \/ \E t \in Threads : PyReturn(t)
    \/ \E t \in Threads, i \in SeqToSet(Interpreters), via \in {"threading", "other"} :
          NewThread(t, i, via)
    \/ \E t \in Threads : ubeacon_trace_setup(t)
    \/ \E outcome \in FutureOutcomes : FutureStep(outcome)
    \/ ExistingStep
    \/ \E t \in Threads : s_ubeacon_stop(t)

SpecThreads == Init /\ [][NextThreads]_vars

\* ------------------------------------------------------------- properties
\* The last operation was an event the tracker was called for and returned
\* from: s_ubeacon is then the state it left.
Traced == last.calls >= 1 /\ last.ret = 0

\* C1: after the tracker has processed a call, line or return event,
\* current_depth is the number of calls open on the thread's stack when the
\* event fired, the event's own frame included, and it is at least 1.
C1_DepthCountsOpenCalls ==
    (Traced /\ last.what \in {"call", "line", "return"})
        => /\ s_ubeacon.current_depth = last.open
           /\ s_ubeacon.current_depth >= 1

\* C1 happens: a return event at the deepest nesting, counted with its own
\* frame although that frame is about to be left.
C1_Witness ==
    /\ Traced
    /\ last.what = "return"
    /\ last.open = MaxDepth
    /\ Len(stack[last.thread]) = MaxDepth - 1
    /\ s_ubeacon.current_depth = MaxDepth

\* C2: when the traceback handed with an exception event has the raising
\* frame as its only entry, exception_origin is TRUE after the event for
\* that frame and FALSE after the event for any other frame, the raising
\* frame's callers among them.
C2_OriginOnlyInRaisingFrame ==
    (/\ Traced
     /\ last.what = "exception"
     /\ s_ubeacon.exception_info.shape = "tuple3"
     /\ Len(s_ubeacon.exception_info.tb) = 1)
        => (s_ubeacon.exception_origin <=> s_ubeacon.exception_info.tb[1] = last.frame)

\* C2 happens: A called B called C, C raised, and the exception event has
\* reached A with the traceback still recording C alone.
C2_Witness ==
    /\ Traced
    /\ last.what = "exception"
    /\ Len(s_ubeacon.exception_info.tb) = 1
    /\ LET c == s_ubeacon.exception_info.tb[1]
       IN /\ heap[c].f_back # NULL
          /\ heap[heap[c].f_back].f_back = last.frame
    /\ s_ubeacon.exception_origin = FALSE

\* C3: however often start() is called, every thread has at most one
\* installation of the tracker, and every event it is called for enters it
\* once and reaches one hook.
C3_StartTwiceTracesOnce ==
    /\ \A t \in Threads : Len(c_tracefunc[t]) <= 1
    /\ last.calls <= 1
    /\ (Traced /\ last.what \in {"call", "line", "return"}) => Len(last.hooks) = 1

\* C3 happens: start() has installed the tracker twice, every thread has
\* it, and an event that fired after the second start() is traced once.
C3_Witness ==
    /\ setup.starts = 2 /\ setup.pc = "idle"
    /\ \A t \in Threads : interp[t] # 0 => c_tracefunc[t] = <<"s_trace_entry_point">>
    /\ Traced
    /\ last.what = "line"
    /\ last.calls = 1
    /\ Len(last.hooks) = 1

\* C4: within one start(), the tracker is installed on threads only by the
\* step that follows the registration for future threads: whenever a step
\* of start() changes what is installed, the registration is already made.
C4_FutureThreadsFirst ==
    [][(setup.pc # "idle" /\ c_tracefunc' # c_tracefunc)
          => /\ setup.pc = "existing"
             /\ trace_hook[interp[setup.caller]] = "ubeacon_trace_fn"]_vars

\* C4 happens: a start() is between its two steps, the registration made
\* and an existing thread not yet traced.
C4_Witness ==
    /\ setup.pc = "existing"
    /\ trace_hook[interp[setup.caller]] = "ubeacon_trace_fn"
    /\ \E t \in Threads : interp[t] # 0 /\ c_tracefunc[t] = <<>>

\* C5: in every call of start(), a second or later one included, the
\* tracker is not entered while the registration for future threads runs:
\* no event of threading.settrace's frame reaches it.
C5_FutureStepUntraced == last.code = SettraceCode => last.calls = 0

\* A start() returns to its caller with no error set by either step.
StartSucceeds == setup.pc # "idle" /\ setup'.pc = "idle" /\ setup'.e = 0

\* C6: when start() returns with no error set, every thread state of every
\* interpreter has the tracker as its trace function, the hook for future
\* threads is registered, and the thread state that called is current.
C6_StartInstallsEverywhere ==
    [][StartSucceeds
          => /\ \A t \in Threads : interp[t] # 0 => c_tracefunc'[t] = <<"s_trace_entry_point">>
             /\ trace_hook'[interp[setup.caller]] = "ubeacon_trace_fn"
             /\ tstate_current' = setup.caller]_vars

\* C6 happens: start() has returned without error to a thread of one
\* interpreter while a thread of another interpreter existed, untraced
\* before; both have the tracker.
C6_Witness ==
    /\ last.what = "start" /\ setup.e = 0 /\ setup.starts = 1
    /\ \E u \in Threads : /\ interp[u] # 0
                          /\ interp[u] # interp[last.thread]
                          /\ c_tracefunc[u] = <<"s_trace_entry_point">>
    /\ c_tracefunc[last.thread] = <<"s_trace_entry_point">>
    /\ trace_hook[interp[last.thread]] = "ubeacon_trace_fn"
    /\ tstate_current = last.thread

\* C7: stop() removes what is installed on the calling thread and nothing
\* else: the installation of every other thread, the hook registered for
\* future threads, every field of the ExecutionState and the reference held
\* on current_frame are as before.
C7_StopOnCallingThreadOnly ==
    [][(last'.what = "stop" /\ last' # last)
          => /\ c_tracefunc'[last'.thread] = <<>>
             /\ \A u \in Threads \ {last'.thread} : c_tracefunc'[u] = c_tracefunc[u]
             /\ trace_hook' = trace_hook
             /\ s_ubeacon' = s_ubeacon
             /\ tracker_refs' = tracker_refs]_vars

\* C7 happens: stop() has returned on one thread, another thread still has
\* the tracker, the hook is still registered and the ExecutionState still
\* holds the frame of the last event.
C7_Witness ==
    /\ last.what = "stop"
    /\ c_tracefunc[last.thread] = <<>>
    /\ \E u \in Threads \ {last.thread} : c_tracefunc[u] = <<"s_trace_entry_point">>
    /\ trace_hook[interp[last.thread]] = "ubeacon_trace_fn"
    /\ s_ubeacon.current_frame # NULL
    /\ tracker_refs[s_ubeacon.current_frame] = 1

\* C8 as stated: each traced thread has its own ExecutionState, so that an
\* event fired on one thread leaves what another traced thread reads as it
\* was.
C8_OwnStatePerThread ==
    [][\A u \in Threads :
          (/\ last' # last /\ last'.calls >= 1 /\ last'.ret = 0
           /\ last'.thread # u
           /\ c_tracefunc[u] = <<"s_trace_entry_point">> /\ stack[u] # <<>>)
              => StateReadOn(u)' = StateReadOn(u)]_vars

\* C8: there is one ExecutionState for the process.  Every traced event, on
\* whichever thread, overwrites it, and what any thread reads is the
\* snapshot of the most recent traced event of all threads.
C8_OneStateForAllThreads ==
    (Traced /\ last.what \in {"call", "line", "return"})
        => \A u \in Threads :
              /\ StateReadOn(u).current_func = PyUnicode_AsUTF8(CodeTab[last.code].co_name)
              /\ StateReadOn(u).current_file = PyUnicode_AsUTF8(CodeTab[last.code].co_filename)
              /\ StateReadOn(u).current_depth = last.open
              /\ StateReadOn(u).current_frame =
                    IF last.what = "return" THEN NULL ELSE last.frame
              /\ last.what # "return"
                    => StateReadOn(u).current_line = PyFrame_GetLineNumber(heap, last.frame)

\* C8 happens: two traced threads are each inside a function, the last
\* event was the second thread's, and the first thread reads the second
\* thread's function.
C8_Witness ==
    /\ \A u \in Threads : c_tracefunc[u] = <<"s_trace_entry_point">> /\ stack[u] # <<>>
    /\ Traced
    /\ last.what = "line"
    /\ last.thread # MainThread
    /\ StateReadOn(MainThread).current_func = PyUnicode_AsUTF8(CodeTab[last.code].co_name)
    /\ PyFrame_GetCode(heap, Top(MainThread)).co_name # StateReadOn(MainThread).current_func

\* The tracker's net acquisitions of frame f over the first k operations of
\* the last event, and its count on f before the event and after k of them.
RECURSIVE Net(_, _, _)
Net(log, f, k) ==
    IF k = 0 THEN 0
    ELSE Net(log, f, k - 1) + (IF log[k] = Inc(f) THEN 1 ELSE IF log[k] = Dec(f) THEN -1 ELSE 0)
HeldBefore(f) == tracker_refs[f] - Net(last.log, f, Len(last.log))
HeldAt(f, k) == HeldBefore(f) + Net(last.log, f, k)
\* The place in the last event's operations of Py_INCREF(frame): the depth
\* walk is what precedes it.
Acquired == CHOOSE k \in 1..Len(last.log) :
               /\ last.log[k] = Inc(last.frame)
               /\ \A j \in 1..(k - 1) : last.log[j] # Inc(last.frame)

\* C9: the tracker holds one counted reference on the frame in
\* current_frame, none when current_frame is absent, and none on any other
\* frame; in every event it acquires the new frame before it releases the
\* one held, the same frame or not; and the depth walk releases what it
\* acquired, no more and no less.
C9_OneFrameReference ==
    /\ \A f \in FrameIds : tracker_refs[f] = IF f = s_ubeacon.current_frame THEN 1 ELSE 0
    /\ Traced =>
          /\ \E k \in 1..Len(last.log) : last.log[k] = Inc(last.frame)
          /\ \A f \in FrameIds :
                /\ \A k \in 0..Len(last.log) : HeldAt(f, k) >= 0
                /\ \A k \in 0..(Acquired - 1) : HeldAt(f, k) >= HeldBefore(f)
                /\ HeldAt(f, Acquired - 1) = HeldBefore(f)

\* C9 happens: two events in a row on the same frame, two calls deep, so
\* that the walk took and released a reference and the frame held and the
\* frame acquired are the same.
C9_Witness ==
    /\ Traced
    /\ last.what = "line"
    /\ last.open >= 2
    /\ HeldBefore(last.frame) = 1
    /\ s_ubeacon.current_frame = last.frame
    /\ \E k \in 1..(Acquired - 1) : last.log[k] = Dec(PyFrame_GetBack(heap, last.frame))

\* C10: for every event the tracker is called for, the callback returns 0,
\* leaves no error set and does not end the process, and a name or type it
\* cannot resolve is recorded as absent with id 0.
C10_NeverSurfacesFailure ==
    last.calls >= 1
        => /\ ~aborted
           /\ last.ret = 0
           /\ last.err = "none"
           /\ PyUnicode_AsUTF8(CodeTab[last.code].co_name) = NULL
                 => s_ubeacon.current_func = NULL /\ s_ubeacon.current_func_id = U64Zero
           /\ (last.what = "exception" /\ s_ubeacon.exception_info.type # "named")
                 => s_ubeacon.exception_type = NULL /\ s_ubeacon.exception_type_id = U64Zero

\* ------------------------------------------------------- watch chain spec
\* The resolver's parts applied to inputs from bounded sets.
NextChain ==
    \/ input.kind = "dict" /\ DictLookup(input.dict, input.key)
    \/ Len(stack[MainThread]) = 0 /\ PyCall(MainThread, 1)
    \/ PyLine(MainThread)
    \/ setup.starts = 0 /\ ubeacon_trace_setup(MainThread)
    \/ FutureStep("ok")
    \/ ExistingStep
    \/ s_ubeacon_interact_resolve_watch_chain

InitChain ==
    /\ Boot
    /\ input \in {[NoInput EXCEPT !.kind = "dict", !.dict = dict, !.key = key_str] :
                     dict \in Dicts, key_str \in LookupKeys}
                \cup {[NoInput EXCEPT !.kind = "chain", !.chain = chain] : chain \in Chains}
                \cup {[NoInput EXCEPT !.kind = kind] : kind \in {"unreadable", "unparseable"}}

SpecChain == InitChain /\ [][NextChain]_vars

\* ------------------------------------------------------ chain properties
\* The last operation looked input.key up in input.dict.
LookedUp == q.op = "s_dict_value_addr"

\* C11: for every dict with distinct string keys, in combined and in split
\* storage and with general and with compact entries, s_dict_value_addr
\* gives for each key the dict contains a non-null address, the one where
\* the pointer to that key's value is stored, gives distinct addresses for
\* distinct keys, and gives NULL for every key the dict does not contain.
C11_ValueSlotOfEveryKey ==
    LookedUp =>
        /\ PyDict_GetItemString(input.dict, input.key) # NULL
              => /\ q.addr # NoAddr
                 /\ \E i \in EntriesOf(input.dict, input.key) : q.addr = ValueSlot(input.dict, i)
                 /\ \A other \in LookupKeys \ {input.key} :
                       s_dict_value_addr(input.dict, other) # q.addr
        /\ PyDict_GetItemString(input.dict, input.key) = NULL => q.addr = NoAddr

\* The last operation resolved the chain input.chain, and its loop ran.
Resolved == q.op = "resolve_watch_chain"
Walked == Resolved /\ q.walked
Steps == 1..Len(input.chain)
Made == SeqToSet(q.made)

\* current_obj when step i began.
CursorBefore(i) == IF i = 1 THEN NULL ELSE q.cursors[i - 1]

IsStep(step, types) == cJSON_IsString(step.type) /\ step.type.s \in types

\* What the program's state makes of a step, given the value the chain has
\* reached: the name is a fast local of f or a global, the index is within
\* the list, the key is in the dict, the object has the attribute.
Finds(step, cursor) ==
    \/ /\ IsStep(step, {"name"}) /\ cJSON_IsString(step.name)
       /\ \/ step.name.s \in SeqToSet(co_varnames(1))
          \/ PyDict_GetItemString(DictTab(5), step.name.s) # NULL
    \/ /\ IsStep(step, {"index"}) /\ cJSON_IsNumber(step.index)
       /\ cursor \in ListIds
       /\ step.index.n >= 0 /\ step.index.n < Len(lists[cursor].items)
    \/ /\ IsStep(step, {"key"}) /\ cJSON_IsString(step.key)
       /\ cursor \in DictIds
       /\ PyDict_GetItemString(DictTab(cursor), step.key.s) # NULL
    \/ /\ IsStep(step, {"attr"}) /\ cJSON_IsString(step.name)
       /\ cursor # NULL
       /\ PyObject_GetAttrString(cursor, step.name.s) # NULL

LinkKinds(step) ==
    CASE IsStep(step, {"name"}) -> {"local", "global"}
      [] IsStep(step, {"index"}) -> {"list_item"}
      [] IsStep(step, {"key"}) -> {"dict_key"}
      [] IsStep(step, {"attr"}) -> {"dict_attr", "slot_attr"}
      [] OTHER -> {}

\* C12: the links are in the order of the chain's steps, one for each step
\* that resolved and none for a step that was skipped, so never more links
\* than steps; and the kind of each link is one of its step's kind: local
\* or global for a name, list_item for an index, dict_key for a key,
\* dict_attr or slot_attr for an attribute.
C12_LinksFollowTheChain ==
    Resolved =>
        /\ Len(q.links) <= Len(input.chain)
        /\ Len(q.made) = Len(q.links)
        /\ \A k \in 1..(Len(q.made) - 1) : q.made[k] < q.made[k + 1]
        /\ \A k \in 1..Len(q.made) :
              /\ q.made[k] \in Steps
              /\ q.links[k].link_type \in LinkKinds(input.chain[q.made[k]])
        /\ Walked => \A i \in Steps : i \in Made <=> Finds(input.chain[i], CursorBefore(i))

\* C12 happens: x[1]["b"] gives a local, a list_item and a dict_key link.
C12_Witness ==
    /\ Walked
    /\ input.chain = <<NameOf("x"), IndexOf(1), KeyOf("b")>>
    /\ Len(q.links) = 3
    /\ q.links[3].link_type = "dict_key"
    /\ q.links[3].current_value = 20

\* C13: when the identifier of a name step is neither a fast local nor a
\* global, no link is made and current_obj becomes NULL, so that every
\* index, key and attribute step after it is skipped until a later name
\* step resolves.
C13_FailedNameEmptiesCursor ==
    Walked =>
        \A i \in Steps :
            (/\ IsStep(input.chain[i], {"name"}) /\ cJSON_IsString(input.chain[i].name)
             /\ ~Finds(input.chain[i], CursorBefore(i)))
            => /\ i \notin Made
               /\ q.cursors[i] = NULL
               /\ \A j \in Steps :
                     (/\ j > i
                      /\ \A k \in (i + 1)..j : ~IsStep(input.chain[k], {"name"}))
                     => j \notin Made

\* C14: an index, key or attribute step that is skipped leaves current_obj
\* at the value the step before left, and the step after it is resolved
\* against that value.
C14_SkippedStepKeepsCursor ==
    Walked =>
        \A i \in Steps :
            (IsStep(input.chain[i], {"index", "key", "attr"}) /\ i \notin Made)
            => /\ q.cursors[i] = CursorBefore(i)
               /\ (i + 1) \in Steps
                     => ((i + 1) \in Made <=> Finds(input.chain[i + 1], CursorBefore(i)))

\* C14 happens: x[9] is out of range and skipped, x[1] still resolves.
C14_Witness ==
    /\ Walked
    /\ input.chain = <<NameOf("x"), IndexOf(9), IndexOf(1)>>
    /\ q.made = <<1, 3>>
    /\ q.links[2].link_type = "list_item"

\* A step that is not well formed.
Invalid(step) ==
    \/ ~IsStep(step, {"name", "index", "key", "attr"})
    \/ IsStep(step, {"name", "attr"}) /\ ~cJSON_IsString(step.name)
    \/ IsStep(step, {"index"}) /\ ~cJSON_IsNumber(step.index)
    \/ IsStep(step, {"key"}) /\ ~cJSON_IsString(step.key)

\* C17: a step that is not well formed (no type, a type that is not a
\* string or not a known one, a name, index or key that is missing or of
\* the wrong type) makes no link, leaves current_obj as it was and does not
\* end the walk: every step is visited and the valid steps after it are
\* resolved.
C17_InvalidStepIsPassedOver ==
    Walked =>
        /\ Len(q.cursors) = Len(input.chain)
        /\ \A i \in Steps :
              Invalid(input.chain[i])
              => /\ i \notin Made
                 /\ i <= Len(q.cursors) => q.cursors[i] = CursorBefore(i)
                 /\ \A j \in Steps :
                       j > i => (j \in Made <=> Finds(input.chain[j], CursorBefore(j)))

\* C17 happens: a step without a string type between x and [1].
C17_Witness ==
    /\ Walked
    /\ Len(input.chain) = 3
    /\ ~cJSON_IsString(input.chain[2].type)
    /\ input.chain[3] = IndexOf(1)
    /\ q.made = <<1, 3>>

\* ------------------------------------------------------ the program's list
\* The list the local x holds is changed by the running function: an item
\* is assigned in place (the array stays where it is), or an item is
\* inserted, and the array the list grows into is the same block or another
\* one, as the allocator has it.
MaxItems == 4
NewItems == {20}
ArrayAddrs == {100, 101}

list_ass_item(l, i, v) ==
    /\ CanRun(MainThread) /\ stack[MainThread] # <<>>
    /\ i < Len(lists[l].items)
    /\ lists' = [lists EXCEPT ![l].items[i + 1] = v]
    /\ UNCHANGED <<tvars, initialized, input, q>>

InsertAt(items, where, v) ==
    SubSeq(items, 1, where) \o <<v>> \o SubSeq(items, where + 1, Len(items))

ins1(l, where, v, block) ==
    /\ CanRun(MainThread) /\ stack[MainThread] # <<>>
    /\ Len(lists[l].items) < MaxItems
    /\ where <= Len(lists[l].items)
    /\ lists' = [lists EXCEPT ![l] = [ob_item |-> block, items |-> InsertAt(@.items, where, v)]]
    /\ UNCHANGED <<tvars, initialized, input, q>>

NextList ==
    \/ Len(stack[MainThread]) = 0 /\ PyCall(MainThread, 1)
    \/ PyLine(MainThread)
    \/ setup.starts = 0 /\ ubeacon_trace_setup(MainThread)
    \/ FutureStep("ok")
    \/ ExistingStep
    \/ \E i \in 0..(MaxItems - 1), v \in NewItems : list_ass_item(1, i, v)
    \/ \E where \in 0..(MaxItems - 1), block \in ArrayAddrs : ins1(1, where, 40, block)
    \/ s_ubeacon_interact_resolve_watch_chain

InitList ==
    /\ Boot
    /\ input \in {[NoInput EXCEPT !.kind = "chain", !.chain = <<NameOf("x"), IndexOf(i)>>] :
                     i \in 0..(MaxItems - 1)}

SpecList == InitList /\ [][NextList]_vars

\* What is stored at an address of a list object, in the lists ls.
StoredAt(ls, addr) ==
    IF addr # NoAddr /\ addr[1] = "PyListObject.ob_item" THEN ls[addr[2]].ob_item ELSE NULL

\* The resolver applied to the chain, the lists being ls.
ResolveWith(ls) ==
    ResolveLoop(ChainStart, input.chain, 1,
                [frame |-> ubeacon_get.current_frame,
                 code |-> heap[ubeacon_get.current_frame].f_code,
                 lists |-> ls, globals |-> PyEval_GetGlobals])

TheIndex == input.chain[2].index.n

\* C15: for the local x holding a list, resolving [name x, index i] with i
\* in range writes two links, the second with the address of the array slot
\* i as storage, the address of the list's ob_item field as guard and
\* element i as current value; over an assignment to an item of the list
\* (length unchanged) re-resolving gives the same storage and guard
\* addresses and the element the list now has at i as current value; over
\* an insertion that moves the array the word stored at the guard address
\* changes.
C15_ListLinkRoundTrip ==
    [][(ubeacon_get.current_frame # NULL /\ TheIndex < Len(lists[1].items)) =>
          /\ (q' # q /\ q'.walked) =>
                /\ Len(q'.links) = 2
                /\ q'.links[2].storage_addr = <<"ob_item", lists[1].ob_item, TheIndex>>
                /\ q'.links[2].current_value = lists[1].items[TheIndex + 1]
                /\ q'.links = ResolveWith(lists).links
          /\ (lists' # lists /\ Len(lists'[1].items) = Len(lists[1].items)) =>
                \E old \in {ResolveWith(lists).links[2]}, new \in {ResolveWith(lists').links[2]} :
                   /\ new.storage_addr = old.storage_addr
                   /\ new.guard_addr = old.guard_addr
                   /\ new.current_value = lists'[1].items[TheIndex + 1]
          /\ lists'[1].ob_item # lists[1].ob_item =>
                \E old \in {ResolveWith(lists).links[2]} :
                   StoredAt(lists', old.guard_addr) # StoredAt(lists, old.guard_addr)
      ]_vars

\* x[1] was resolved, then assigned 20 in place, then resolved again.
C15_Witness ==
    /\ Walked /\ TheIndex = 1 /\ Len(q.links) = 2
    /\ lists[1].items[2] = 20 /\ q.links[2].current_value = 20
    /\ lists[1].ob_item = 101

\* ------------------------------------------------------------- first_line
\* The step is an event the tracker processed to the end.
Processed(what) == last' # last /\ last'.calls = 1 /\ last'.what = what /\ ~aborted'

\* C20: first_line is false before any call event; a call event sets it, a
\* line event hands it to the line hook as the events before left it and
\* clears it afterwards, and no other step (a return event, an exception
\* event, start()) changes it: so the line hook sees it true exactly when
\* no line event was processed since the last call event.
C20_FirstLineAfterCall ==
    /\ s_ubeacon.first_line = FALSE
    /\ [][/\ Processed("call") => s_ubeacon'.first_line = TRUE
          /\ Processed("line") =>
                /\ Len(last'.hooks) = 1
                /\ last'.hooks[1].hook = "s_ubeacon_trace_line"
                /\ last'.hooks[1].at.first_line = s_ubeacon.first_line
                /\ s_ubeacon'.first_line = FALSE
          /\ ~(Processed("call") \/ Processed("line")) =>
                s_ubeacon'.first_line = s_ubeacon.first_line
         ]_vars

\* The line hook was called with first_line true: the first line of a call.
C20_Witness ==
    /\ last.what = "line" /\ last.calls = 1 /\ ~aborted
    /\ last.hooks[1].at.first_line = TRUE
    /\ s_ubeacon.first_line = FALSE

\* ------------------------------------------------------------- the queries
\* The functions of interact.c a debugger calls in the stopped process, on
\* the thread that is current.  The destination file is writable and cJSON
\* allocates what it is asked for.
QueryVars == <<interp, tstate_current, c_tracefunc, trace_hook, stack, exc, setup, NDEBUG,
               initialized, lists, input>>

\* What undefined behaviour in a query leaves: the process dies with nothing
\* printed, or prints what is no document of the format, or goes on as if
\* the memory it read were what it was (where that can be: intact).
Undefined(op, outcome, frames) ==
    [NoQuery EXCEPT !.op = op, !.ub = TRUE,
                    !.written = IF outcome = "crash" THEN 0 ELSE 1,
                    !.wellformed = (outcome = "intact"),
                    !.frames = IF outcome = "intact" THEN frames ELSE <<>>]

\* The events of Python code the query runs on thread t: the code's frame
\* is called, runs a line and returns, and what is installed on t gets the
\* three events.
RunEvents(t, code) ==
    LET f == NewFrame
        h1 == [heap EXCEPT ![f] = [f_back |-> IF stack[t] = <<>> THEN NULL ELSE Top(t),
                                   f_code |-> code, f_lineno |-> 1]]
        m0 == Fresh(s_ubeacon, tracker_refs, c_tracefunc, t, NDEBUG)
    IN CHOOSE r \in
           {[m |-> m3, h |-> h1, f |-> f] :
               m3 \in {Dispatch(m2, t, h1, f, "return", NoArg) :
                          m2 \in {Dispatch(m1, t, h1, f, "line", NoArg) :
                                     m1 \in {Dispatch(m0, t, h1, f, "call", NoArg)}}}} : TRUE

\* The query ran code on thread t (runs), the events being delivered unless
\* the process is stopped inside a trace callback (tracing), and left the
\* result res.
Ran(t, code, runs, tracing, res) ==
    IF ~runs \/ tracing \/ c_tracefunc[t] = <<>>
    THEN /\ q' = res
         /\ UNCHANGED <<s_ubeacon, tracker_refs, heap, last, aborted>>
    ELSE \E r \in {RunEvents(t, code)} :
            /\ s_ubeacon' = r.m.b
            /\ tracker_refs' = r.m.refs
            /\ last' = Event(r.m, t, r.h, r.f, "return", Len(stack[t]) + 1)
            /\ heap' = Collect(r.h, stack, r.m.refs, exc, r.m.b)
            /\ aborted' = FreedEarly(r.h, stack, r.m.refs, exc, r.m.b)
            /\ q' = [res EXCEPT !.events = 3]

\* ------------------------------------------------------- s_frame_to_cJSON
\* cJSON_CreateString(NULL) is NULL: no object for a frame whose names
\* cannot be encoded.
NoFrameJSON == [null |-> TRUE, func_name |-> NULL, file_name |-> NULL, line |-> 0, frame_no |-> 0]
s_frame_to_cJSON(h, py_frame, raw_frame_no) ==
    LET code == PyFrame_GetCode(h, py_frame)
    IN IF PyUnicode_AsUTF8(code.co_name) = NULL \/ PyUnicode_AsUTF8(code.co_filename) = NULL
       THEN NoFrameJSON
       ELSE [null |-> FALSE, func_name |-> PyUnicode_AsUTF8(code.co_name),
             file_name |-> PyUnicode_AsUTF8(code.co_filename),
             line |-> PyFrame_GetLineNumber(h, py_frame), frame_no |-> raw_frame_no]

\* ------------------------------------------ s_ubeacon_interact_backtrace_json
\* The loop from py_frame: each frame is printed and released, then its
\* f_back is acquired.  freed: a frame's count reached zero at a release
\* (it was then read, or is still in use).
RECURSIVE BacktraceLoop(_, _, _, _, _, _)
BacktraceLoop(h, refs, py_frame, frame_no, frames, freed) ==
    IF py_frame = NULL
    THEN [frames |-> frames, refs |-> refs, released |-> TRUE, freed |-> freed]
    ELSE CHOOSE r \in
             {IF frame.null
              THEN [frames |-> frames, refs |-> refs1, released |-> FALSE, freed |-> gone]
              ELSE BacktraceLoop(h, IF back = NULL THEN refs1
                                    ELSE [refs1 EXCEPT ![back] = @ + 1],
                                 back, frame_no + 1, Append(frames, frame), gone) :
                 frame \in {s_frame_to_cJSON(h, py_frame, frame_no)},
                 refs1 \in {[refs EXCEPT ![py_frame] = @ - 1]},
                 gone \in {freed \/ OwnerCount(h, stack, exc, s_ubeacon, py_frame)
                                      + refs[py_frame] - 1 <= 0},
                 back \in {PyFrame_GetBack(h, py_frame)}} : TRUE

\* A variant that forgets current_frame once it has released it.
s_ubeacon_interact_backtrace_json_clearing ==
    /\ ~aborted /\ setup.pc = "idle"
    /\ IF ~initialized
       THEN /\ q' = Exit([NoQuery EXCEPT !.op = "backtrace_json", !.written = 1],
                         "fail_no_python", 0, 0)
            /\ UNCHANGED <<tracker_refs, heap, aborted, s_ubeacon>>
       ELSE \E r \in {BacktraceLoop(heap, tracker_refs, ubeacon_get.current_frame, 0, <<>>,
                                    FALSE)} :
               /\ q' = Exit([NoQuery EXCEPT !.op = "backtrace_json", !.written = 1,
                                            !.frames = r.frames],
                            "fail_no_python", 1, IF r.released THEN 1 ELSE 0)
               /\ tracker_refs' = r.refs
               /\ s_ubeacon' = [s_ubeacon EXCEPT !.current_frame = NULL]
               /\ heap' = Collect(heap, stack, r.refs, exc, s_ubeacon')
               /\ UNCHANGED aborted
    /\ UNCHANGED <<QueryVars, last>>

s_ubeacon_interact_backtrace_json ==
    /\ ~aborted /\ setup.pc = "idle"
    /\ IF ~initialized
       THEN /\ q' = Exit([NoQuery EXCEPT !.op = "backtrace_json", !.written = 1],
                         "fail_no_python", 0, 0)
            /\ UNCHANGED <<tracker_refs, heap, aborted>>
       ELSE \E r \in {BacktraceLoop(heap, tracker_refs, ubeacon_get.current_frame, 0, <<>>,
                                    FALSE)} :
               IF r.freed
               THEN /\ \E outcome \in {"crash", "garbage", "intact"} :
                          q' = Exit(Undefined("backtrace_json", outcome, r.frames),
                                    outcome, 1, IF r.released THEN 1 ELSE 0)
                    /\ aborted' = TRUE
                    /\ UNCHANGED <<tracker_refs, heap>>
               ELSE /\ q' = Exit([NoQuery EXCEPT !.op = "backtrace_json", !.written = 1,
                                                 !.frames = r.frames],
                                 "fail_no_python", 1, IF r.released THEN 1 ELSE 0)
                    /\ tracker_refs' = r.refs
                    /\ heap' = Collect(heap, stack, r.refs, exc, s_ubeacon)
                    /\ UNCHANGED aborted
    /\ UNCHANGED <<QueryVars, s_ubeacon, last>>

\* --------------------------------------------- s_ubeacon_interact_locals_json
\* PyEval_GetLocals: the locals of the frame the current thread executes as
\* a dict (its items in order), NULL when it executes none.
RECURSIVE LocalsFrom(_, _, _)
LocalsFrom(varnames, frame, j) ==
    IF j >= Len(varnames) THEN <<>>
    ELSE (IF localsplus(frame, j) # NULL
          THEN <<[key |-> varnames[j + 1], value |-> localsplus(frame, j)]>> ELSE <<>>)
         \o LocalsFrom(varnames, frame, j + 1)

PyEval_GetLocals ==
    IF stack[tstate_current] = <<>> THEN <<>>
    ELSE LocalsFrom(co_varnames(heap[Top(tstate_current)].f_code), Top(tstate_current), 0)

\* repr() as bytes: "[..]" of a list, "<o>" of an instance of the program's
\* class (what its __repr__ method returns), "1" of anything else.
PyObject_Repr(value) ==
    IF value \in ListIds THEN <<91, 46, 46, 93>>
    ELSE IF value \in InstanceIds THEN <<60, 111, 62>> ELSE <<49>>
s_local_to_cJSON(py_name, py_value) == [name |-> py_name, value |-> PyObject_Repr(py_value)]

RECURSIVE LocalsLoop(_, _)
LocalsLoop(py_locals, pos) ==
    IF pos > Len(py_locals) THEN <<>>
    ELSE <<s_local_to_cJSON(py_locals[pos].key, py_locals[pos].value)>>
         \o LocalsLoop(py_locals, pos + 1)

s_ubeacon_interact_locals_json ==
    /\ ~aborted /\ setup.pc = "idle" /\ FreeIds # {}
    /\ IF ~initialized
       THEN /\ q' = Exit([NoQuery EXCEPT !.op = "locals_json", !.written = 1],
                         "fail_no_python", 0, 0)
            /\ UNCHANGED <<s_ubeacon, tracker_refs, heap, last, aborted>>
       ELSE IF stack[tstate_current] = <<>>
       THEN \* PyDict_Next(NULL, ...)
            /\ \E outcome \in {"crash", "garbage"} :
                  q' = Exit(Undefined("locals_json", outcome, <<>>), outcome, 1, 1)
            /\ aborted' = TRUE
            /\ UNCHANGED <<s_ubeacon, tracker_refs, heap, last>>
       ELSE \E tracing \in BOOLEAN, py_locals \in {PyEval_GetLocals} :
               Ran(tstate_current, ReprCode,
                   \E pos \in 1..Len(py_locals) : py_locals[pos].value \in InstanceIds,
                   tracing,
                   Exit([NoQuery EXCEPT !.op = "locals_json", !.written = 1,
                                        !.items = LocalsLoop(py_locals, 1)],
                        "fail_no_python", 1, 1))
    /\ UNCHANGED QueryVars

\* ---------------------------------------------- s_ubeacon_interact_files_json
\* The values of sys.modules: a module's __file__ is a path (its bytes),
\* None, or missing.
\* "a.py", a built-in module, "m.so", a namespace package, "b.pyc", a
\* module whose __file__ is no str, one whose path cannot be encoded.
sys_modules == << [kind |-> "str", path |-> <<97, 46, 112, 121>>],
                  [kind |-> "missing", path |-> <<>>],
                  [kind |-> "str", path |-> <<109, 46, 115, 111>>],
                  [kind |-> "None", path |-> <<>>],
                  [kind |-> "str", path |-> <<98, 46, 112, 121, 99>>],
                  [kind |-> "bytes", path |-> <<99, 46, 112, 121>>],
                  [kind |-> "surrogate", path |-> <<>>] >>

\* strstr(path, ".py") != NULL
RECURSIVE strstr(_, _, _)
strstr(path, needle, i) ==
    IF i + Len(needle) - 1 > Len(path) THEN FALSE
    ELSE IF SubSeq(path, i, i + Len(needle) - 1) = needle THEN TRUE
    ELSE strstr(path, needle, i + 1)

RECURSIVE FilesLoop(_, _)
FilesLoop(values, i) ==
    IF i > Len(values) THEN <<>>
    ELSE (IF values[i].kind = "str" /\ strstr(values[i].path, <<46, 112, 121>>, 1)
          THEN <<[name |-> "file", value |-> values[i].path]>> ELSE <<>>)
         \o FilesLoop(values, i + 1)

\* fails: the lookup that fails (the import of sys, sys.modules, its
\* values), or none.  The jump to fail_no_python passes the creation of
\* top_level, which is then printed.
s_ubeacon_interact_files_json(fails) ==
    /\ ~aborted /\ setup.pc = "idle"
    /\ IF ~initialized \/ fails # "none"
       THEN /\ \E outcome \in {"crash", "garbage"} :
                  q' = Exit(Undefined("files_json", outcome, <<>>), outcome, 0, 0)
            /\ aborted' = TRUE
       ELSE /\ q' = Exit([NoQuery EXCEPT !.op = "files_json", !.written = 1,
                                         !.items = FilesLoop(sys_modules, 1)],
                         "fail_no_python", 0, 0)
            /\ UNCHANGED aborted
    /\ UNCHANGED <<QueryVars, s_ubeacon, tracker_refs, heap, last>>

\* --------------------------------------------------- s_ubeacon_interact_eval
\* code: an expression that evaluates to a value, one that does not
\* compile, or one whose value has no repr.  Without a Python frame
\* PyEval_GetGlobals() is NULL, which PyRun_String and Py_DECREF are handed.
s_ubeacon_interact_eval(code) ==
    /\ ~aborted /\ setup.pc = "idle" /\ FreeIds # {}
    /\ IF ~initialized
       THEN /\ q' = Exit([NoQuery EXCEPT !.op = "eval"], "return", 0, 0)
            /\ UNCHANGED <<s_ubeacon, tracker_refs, heap, last, aborted>>
       ELSE IF stack[tstate_current] = <<>>
       THEN /\ \E outcome \in {"crash", "garbage"} :
                  q' = Exit(Undefined("eval", outcome, <<>>), outcome, 1, 1)
            /\ aborted' = TRUE
            /\ UNCHANGED <<s_ubeacon, tracker_refs, heap, last>>
       ELSE IF code = "no_repr"
       THEN \* PyUnicode_AsUTF8(NULL), after the expression ran
            /\ \E outcome \in {"crash", "garbage"} :
                  q' = Exit(Undefined("eval", outcome, <<>>), outcome, 1, 1)
            /\ aborted' = TRUE
            /\ UNCHANGED <<s_ubeacon, tracker_refs, heap, last>>
       ELSE \E tracing \in BOOLEAN :
               Ran(tstate_current, EvalCode, code = "value", tracing,
                   Exit([NoQuery EXCEPT !.op = "eval", !.written = 1,
                                        !.items = IF code = "value"
                                                  THEN <<[name |-> "result",
                                                          value |-> PyObject_Repr(1)]>>
                                                  ELSE <<[name |-> "Python error",
                                                          value |-> <<>>]>>],
                        "return", 1, 1))
    /\ UNCHANGED QueryVars

\* Py_Finalize, once no Python code runs.
Py_Finalize ==
    /\ ~aborted /\ initialized /\ setup.pc = "idle"
    /\ \A t \in Threads : stack[t] = <<>>
    /\ initialized' = FALSE
    /\ UNCHANGED <<tvars, lists, input, q>>

\* One thread runs Python code two calls deep with exceptions and one
\* start(); the debugger makes its queries wherever the process is.
QueryDepth == 2
NextQuery ==
    \/ \E c \in CodesAt(Len(stack[MainThread]) + 1) :
          /\ Len(stack[MainThread]) < QueryDepth
          /\ Calls(MainThread) /\ PyCall(MainThread, c)
    \/ PyLine(MainThread)
    \/ PyReturn(MainThread)
    \/ PyRaise(MainThread, "named")
    \/ PyHandle(MainThread)
    \/ setup.starts = 0 /\ ubeacon_trace_setup(MainThread)
    \/ FutureStep("ok")
    \/ ExistingStep
    \/ s_ubeacon_interact_backtrace_json
    \/ s_ubeacon_interact_locals_json
    \/ \E fails \in {"none", "sys", "modules", "values"} : s_ubeacon_interact_files_json(fails)
    \/ \E code \in {"value", "error", "no_repr"} : s_ubeacon_interact_eval(code)
    \/ s_ubeacon_interact_resolve_watch_chain
    \/ Py_Finalize

InitQuery ==
    /\ Boot
    /\ input \in {[NoInput EXCEPT !.kind = "unreadable"], [NoInput EXCEPT !.kind = "unparseable"],
                  [NoInput EXCEPT !.kind = "chain", !.chain = <<NameOf("x"), IndexOf(1)>>]}

SpecQuery == InitQuery /\ [][NextQuery]_vars

\* ------------------------------------------------------- dump_frame_state
\* The frames on the f_back chain from f with their names, line and index.
RECURSIVE FrameRecords(_, _, _)
FrameRecords(h, f, n) ==
    IF f = NULL THEN <<>>
    ELSE <<[null |-> FALSE, func_name |-> CodeTab[h[f].f_code].co_name,
            file_name |-> CodeTab[h[f].f_code].co_filename,
            line |-> h[f].f_lineno, frame_no |-> n]>>
         \o FrameRecords(h, h[f].f_back, n + 1)

\* The step is a frame-state dump.
Dumped == q' # q /\ q'.op = "backtrace_json"

\* C18: a frame-state dump writes one record for each frame on the f_back
\* chain of current_frame, from current_frame outwards, numbered from 0;
\* after a processed call, line or exception event they are current_depth
\* many, and none when current_frame is NULL.
C18_OneRecordPerFrame ==
    [][Dumped =>
          /\ q'.written = 1 /\ q'.wellformed
          /\ initialized => q'.frames = FrameRecords(heap, s_ubeacon.current_frame, 0)
          /\ (initialized /\ last.calls = 1 /\ last.what \in {"call", "line", "exception"}) =>
                Len(q'.frames) = s_ubeacon.current_depth
          /\ s_ubeacon.current_frame = NULL => q'.frames = <<>>
      ]_vars

\* ------------------------------------------------------------ every query
QueryOps == {"backtrace_json", "locals_json", "files_json", "eval", "resolve_watch_chain"}

\* C16: whatever query ran last printed exactly one document to its file,
\* and the file holds a document of the query's format.
C16_OneResultOnEveryPath == q.op \in QueryOps => q.written = 1 /\ q.wellformed

\* The step is a query.
Queried == q' # q /\ q'.op \in QueryOps

C21_SetupReportsFailure ==
    last.what = "start" =>
        IF setup.e = 0
        THEN ubeacon_trace_setup_return(setup.e) = 0 /\ setup.start = "Py_None"
        ELSE ubeacon_trace_setup_return(setup.e) < 0 /\ setup.start = "NULL"

\* ------------------------------------------------ dump_loaded_source_files
\* The path's last bytes are ".py".
EndsInPy(path) == Len(path) >= 3 /\ SubSeq(path, Len(path) - 2, Len(path)) = <<46, 112, 121>>

\* The paths of the modules from i on whose __file__ is a str ending in ".py".
RECURSIVE SourcePaths(_)
SourcePaths(i) ==
    IF i > Len(sys_modules) THEN <<>>
    ELSE (IF sys_modules[i].kind = "str" /\ EndsInPy(sys_modules[i].path)
          THEN <<sys_modules[i].path>> ELSE <<>>) \o SourcePaths(i + 1)

\* C22: the files document lists exactly the paths of the loaded modules
\* whose __file__ is a string ending in ".py".
C22_ListsPathsEndingInPy ==
    (q.op = "files_json" /\ ~q.ub) =>
        /\ Len(q.items) = Len(SourcePaths(1))
        /\ \A i \in 1..Len(q.items) : q.items[i].value = SourcePaths(1)[i]

\* ------------------------------------------------------- exception origin
\* C23: after an exception event whose traceback has one entry or more,
\* exception_origin is TRUE exactly when the frame of the traceback's last
\* entry (the end of its tb_next chain) is the event's frame.
C23_OriginIsTailFrame ==
    (/\ Traced
     /\ last.what = "exception"
     /\ s_ubeacon.exception_info.shape = "tuple3"
     /\ Len(s_ubeacon.exception_info.tb) >= 1)
        => (s_ubeacon.exception_origin
               <=> s_ubeacon.exception_info.tb[Len(s_ubeacon.exception_info.tb)] = last.frame)

\* ------------------------------------------------- the fields and their ids
\* The event's frame while it is allocated (a frame that returned and is held
\* by nothing is freed with the event).
Allocated(f) == f # NULL /\ heap[f].f_code # 0

DescribesEventFrame ==
    (Traced /\ ~aborted) =>
        /\ s_ubeacon.current_file = PyUnicode_AsUTF8(CodeTab[last.code].co_filename)
        /\ s_ubeacon.current_func = PyUnicode_AsUTF8(CodeTab[last.code].co_name)
        /\ s_ubeacon.current_depth = last.open
        /\ Allocated(last.frame) =>
              s_ubeacon.current_line = PyFrame_GetLineNumber(heap, last.frame)

IdsAreHashes ==
    /\ s_ubeacon.current_file_id = s_ubeacon_simple_hash(s_ubeacon.current_file)
    /\ s_ubeacon.current_func_id = s_ubeacon_simple_hash(s_ubeacon.current_func)
    /\ s_ubeacon.exception_type_id = s_ubeacon_simple_hash(s_ubeacon.exception_type)
    /\ s_ubeacon_simple_hash(NULL) = U64Zero

\* An event the tracker has processed to its end, of any kind.
ProcessedAny == last' # last /\ last'.calls >= 1 /\ last'.ret = 0 /\ ~aborted'

\* C24: after every event current_file, current_func, current_line and
\* current_depth are those of the event's frame (its code's file and function
\* name, the line the frame is at when the event fires, the number of calls
\* open on the thread with frames entered before start() counted), and in
\* every state, the initial one included, each id is the hash of its string,
\* 0 for an absent string.
C24_FieldsDescribeEventFrame ==
    /\ [](DescribesEventFrame /\ IdsAreHashes)
    /\ [][ProcessedAny =>
             s_ubeacon'.current_line =
                 IF last'.what = "call" THEN 1
                 ELSE IF last'.what = "line" THEN 2
                 ELSE PyFrame_GetLineNumber(heap, last'.frame)]_vars

\* C24 happens: an exception event two calls deep with a named type, so that
\* all three ids are hashes of strings that are present.
C24_Witness ==
    /\ Traced /\ ~aborted
    /\ last.what = "exception"
    /\ last.open >= 2
    /\ s_ubeacon.current_depth = last.open
    /\ s_ubeacon.current_func # NULL
    /\ s_ubeacon.exception_type # NULL
    /\ s_ubeacon.exception_type_id = HashBytes(StrTab[s_ubeacon.exception_type], FALSE)
    /\ s_ubeacon.exception_type_id # U64Zero

\* --------------------------------------------------------- exception state
NoExceptionState(b) ==
    /\ b.exception_origin = FALSE
    /\ b.exception_info = NoArg
    /\ b.exception_type = NULL
    /\ b.exception_type_id = U64Zero

\* Increments less decrements of the last event on an exception record.
RecordNet(log, record) == Net(log, record, Len(log))

\* The record held when the event began is released once, if there was one.
ReleasesHeld ==
    RecordNet(last'.log, HeldRecord) = IF s_ubeacon.exception_info # NoArg THEN -1 ELSE 0

\* C25: a call, line or return event leaves exception_origin FALSE, no
\* exception record, no type name and id 0, and has released the record held
\* before, if any; an exception event releases the record held before and
\* holds one counted reference on its own record, with the origin, type and
\* id computed from that record; and exception state is present only from an
\* exception event to the next event (none in the initial state).
C25_ExceptionStateUntilNextEvent ==
    /\ NoExceptionState(s_ubeacon)
    /\ [][/\ \A what \in {"call", "line", "return"} :
                Processed(what) =>
                    /\ NoExceptionState(s_ubeacon')
                    /\ ReleasesHeld
                    /\ RecordNet(last'.log, ArgRecord) = 0
          /\ Processed("exception") =>
                /\ s_ubeacon'.exception_info # NoArg
                /\ ReleasesHeld
                /\ RecordNet(last'.log, ArgRecord) = 1
                /\ \A k \in 1..Len(last'.log) : last'.log[k] # Dec(ArgRecord)
                /\ s_ubeacon'.exception_type = s_exception_type(s_ubeacon'.exception_info).result
                /\ s_ubeacon'.exception_origin =
                       s_is_exception_origin(s_ubeacon'.exception_info, last'.frame).is_origin
          /\ ~NoExceptionState(s_ubeacon') =>
                Processed("exception") \/ s_ubeacon' = s_ubeacon]_vars

\* C25 happens: a line event that follows an exception event (the exception
\* was handled in the frame) has released the record and cleared the state.
C25_Witness ==
    /\ Traced /\ ~aborted
    /\ last.what = "line"
    /\ \E k \in 1..Len(last.log) : last.log[k] = Dec(HeldRecord)
    /\ NoExceptionState(s_ubeacon)

\* ------------------------------------------------------------ return event
HoldsNoFrame(b, refs) ==
    b.current_frame = NULL /\ \A f \in FrameIds : refs[f] = 0

\* C26: on a return event the return hook runs with current_frame still the
\* returning frame; when the event is over current_frame is absent, the
\* tracker has no reference on any frame, and current_depth is the depth
\* that counted the frame that returned; and nothing but the next event
\* changes that.
C26_ReturnReleasesFrame ==
    [][/\ Processed("return") =>
             /\ Len(last'.hooks) = 1
             /\ last'.hooks[1].hook = "s_ubeacon_trace_ret"
             /\ last'.hooks[1].at.current_frame = last'.frame
             /\ HoldsNoFrame(s_ubeacon', tracker_refs')
             /\ s_ubeacon'.current_depth = last'.open
             /\ last'.open = Len(stack'[last'.thread]) + 1
       /\ (HoldsNoFrame(s_ubeacon, tracker_refs) /\ (last' = last \/ last'.calls = 0)) =>
             /\ HoldsNoFrame(s_ubeacon', tracker_refs')
             /\ s_ubeacon'.current_depth = s_ubeacon.current_depth]_vars

\* C26 happens: a function called from another has returned; the caller is
\* running and the depth recorded still counts the callee.
C26_Witness ==
    /\ Traced /\ ~aborted
    /\ last.what = "return"
    /\ last.hooks[1].at.current_frame = last.frame
    /\ HoldsNoFrame(s_ubeacon, tracker_refs)
    /\ s_ubeacon.current_depth = 2
    /\ Len(stack[last.thread]) = 1

\* -------------------------------------------------------------- call event
\* C27: on a call event first_line is set to TRUE before the call hook is
\* called: the call hook runs with first_line TRUE.
C27_CallHookSeesFirstLine ==
    [][Processed("call") =>
          /\ s_ubeacon'.first_line = TRUE
          /\ Len(last'.hooks) = 1
          /\ last'.hooks[1].hook = "s_ubeacon_trace_call"
          /\ last'.hooks[1].at.first_line = TRUE]_vars

\* ------------------------------------------------------------ the hash spec
\* s_ubeacon_simple_hash applied to strings from a bounded set: every string
\* of at most MaxHashLen of the bytes below (a C string holds no byte 0), and
\* the absent string, in a build whose char is signed and in one whose char is
\* unsigned.
MaxHashLen == 2
HashAlphabet == {1, 97, 127, 128, 255}

HashStrings == UNION {SeqsOfLen(HashAlphabet, n) : n \in 0..MaxHashLen}

\* s_ubeacon_simple_hash(data_str): input.kind "absent" is the null pointer.
SimpleHash ==
    /\ input.kind \in {"absent", "string"}
    /\ q.op = "none"
    /\ q' = [NoQuery EXCEPT
                !.op = "s_ubeacon_simple_hash",
                !.hash = IF input.kind = "absent" THEN U64Zero
                         ELSE HashBytes(input.data_str, input.char_signed)]
    /\ UNCHANGED <<tvars, initialized, lists, input>>

NextHash == SimpleHash

InitHash ==
    /\ Boot
    /\ input \in {[NoInput EXCEPT !.kind = "string", !.data_str = str, !.char_signed = sg] :
                     str \in HashStrings, sg \in BOOLEAN}
                \cup {[NoInput EXCEPT !.kind = "absent", !.char_signed = sg] : sg \in BOOLEAN}

SpecHash == InitHash /\ [][NextHash]_vars

\* The 64-bit FNV-1 hash of a byte string: from the offset basis, for each
\* byte the hash is multiplied by the prime and the byte (0..255) is then
\* xored into its low eight bits, modulo 2^64.
RECURSIVE Fnv1From(_, _, _)
Fnv1From(hash, bytes, i) ==
    IF i > Len(bytes) THEN hash
    ELSE Fnv1From(CHOOSE r \in {U64Xor(MulPrime(h), <<bytes[i], 0, 0, 0, 0, 0, 0, 0>>) :
                                   h \in {hash}} : TRUE,
                  bytes, i + 1)

Fnv1(bytes) == Fnv1From(FnvOffset, bytes, 1)

\* C28: s_ubeacon_simple_hash(s) is the 64-bit FNV-1 hash of the bytes of s,
\* each byte a value 0..255, for every string s, and 0 for the absent string.
C28_HashIsFnv1 ==
    q.op = "s_ubeacon_simple_hash" =>
        q.hash = IF input.kind = "absent" THEN U64Zero ELSE Fnv1(input.data_str)

\* ------------------------------------------------------------ the name spec
\* The resolver applied to chains of name steps: x is a local and a global,
\* u a local that is unbound, g a global only, zz neither; the frame runs
\* code 1, which declares x, u and o, or code 2, which declares no local.
MaxNames == 2
NameSteps == {NameOf("x"), NameOf("u"), NameOf("g"), NameOf("zz"), IndexOf(1)}
NameChains == UNION {SeqsOfLen(NameSteps, n) : n \in 1..MaxNames}

NextNames ==
    \/ \E c \in {1, 2} : Len(stack[MainThread]) = 0 /\ PyCall(MainThread, c)
    \/ PyLine(MainThread)
    \/ setup.starts = 0 /\ ubeacon_trace_setup(MainThread)
    \/ FutureStep("ok")
    \/ ExistingStep
    \/ s_ubeacon_interact_resolve_watch_chain

InitNames ==
    /\ Boot
    /\ input \in {[NoInput EXCEPT !.kind = "chain", !.chain = chain] : chain \in NameChains}

SpecNames == InitNames /\ [][NextNames]_vars

\* The link the query made for step i.
LinkOf(query, i) == query.links[CHOOSE k \in 1..Len(query.made) : query.made[k] = i]

\* C29: a name step whose identifier is declared as a fast local of the
\* current frame's code gives a local link with the address of that local's
\* slot and no guard, and current_obj becomes what the slot holds (NULL for
\* an unbound local), whether or not a global has the same name; an
\* identifier that is not declared is looked up in the globals and gives a
\* global link with the address of the dict's value slot and no guard when
\* it is there, and no link when it is not.
C29_LocalBeforeGlobal ==
    [][(q' # q /\ q'.op = "resolve_watch_chain" /\ q'.walked) =>
          \A i \in Steps :
              (IsStep(input.chain[i], {"name"}) /\ cJSON_IsString(input.chain[i].name)) =>
                  LET name == input.chain[i].name.s
                      frame == ubeacon_get.current_frame
                      idx == VarLoop(co_varnames(heap[frame].f_code), name, 0)
                      global == PyDict_GetItemString(DictTab(PyEval_GetGlobals), name)
                  IN IF idx >= 0
                     THEN /\ i \in SeqToSet(q'.made)
                          /\ LinkOf(q', i) = s_make_link(<<"localsplus", frame, idx>>,
                                                         localsplus(frame, idx), "local", NoAddr)
                          /\ q'.cursors[i] = localsplus(frame, idx)
                     ELSE IF global # NULL
                     THEN /\ i \in SeqToSet(q'.made)
                          /\ LinkOf(q', i).link_type = "global"
                          /\ LinkOf(q', i).guard_addr = NoAddr
                          /\ LinkOf(q', i).storage_addr =
                                 s_dict_value_addr(DictTab(PyEval_GetGlobals), name)
                          /\ LinkOf(q', i).current_value = global
                          /\ q'.cursors[i] = global
                     ELSE i \notin SeqToSet(q'.made)]_vars

\* C29 happens: in a frame that declares x and u, x (also a global) gives
\* the local link of slot 0 and the unbound u the local link of slot 1,
\* after which current_obj is NULL.
C29_Witness ==
    /\ Walked
    /\ input.chain = <<NameOf("x"), NameOf("u")>>
    /\ PyDict_GetItemString(DictTab(5), "x") # NULL
    /\ Len(q.links) = 2
    /\ q.links[1].link_type = "local" /\ q.links[1].current_value = 1
    /\ q.links[2].link_type = "local" /\ q.links[2].current_value = NULL
    /\ q.links[2].storage_addr = <<"localsplus", ubeacon_get.current_frame, 1>>
    /\ q.cursors[2] = NULL

\* ----------------------------------------------------------- the index spec
\* The resolver applied to chains with index steps below, at and beyond the
\* ends of the list x (the indexes -1, 1, the last one and the length), and
\* with steps of the other kinds.
MaxIndexChain == 3
IndexSteps == {NameOf("x"), NameOf("g"), KeyOf("b"), AttrOf("a"),
               IndexOf(-1), IndexOf(1), IndexOf(Len(ListsInit[1].items) - 1),
               IndexOf(Len(ListsInit[1].items))}
IndexChains == UNION {SeqsOfLen(IndexSteps, n) : n \in 1..MaxIndexChain}

InitIndex ==
    /\ Boot
    /\ input \in {[NoInput EXCEPT !.kind = "chain", !.chain = chain] : chain \in IndexChains}

SpecIndex == InitIndex /\ [][NextNames]_vars

\* C30: an index step makes a link exactly when current_obj is a list and
\* 0 <= index < its length; the link is a list_item link whose storage
\* address is that of slot index of the array ob_item points to, whose guard
\* address is that of the list's ob_item field and whose value is the
\* element, which current_obj becomes; every link of another kind has no
\* guard address.
C30_IndexLinkWithinBounds ==
    [][(q' # q /\ q'.op = "resolve_watch_chain" /\ q'.walked) =>
          /\ \A i \in Steps :
                (IsStep(input.chain[i], {"index"}) /\ cJSON_IsNumber(input.chain[i].index)) =>
                    LET index == input.chain[i].index.n
                        cursor == IF i = 1 THEN NULL ELSE q'.cursors[i - 1]
                    IN /\ i \in SeqToSet(q'.made)
                          <=> /\ cursor # NULL /\ PyList_Check(cursor)
                              /\ 0 <= index /\ index < Len(lists[cursor].items)
                       /\ i \in SeqToSet(q'.made) =>
                             /\ LinkOf(q', i) =
                                    s_make_link(<<"ob_item", lists[cursor].ob_item, index>>,
                                                lists[cursor].items[index + 1], "list_item",
                                                <<"PyListObject.ob_item", cursor, 0>>)
                             /\ q'.cursors[i] = lists[cursor].items[index + 1]
          /\ \A k \in 1..Len(q'.links) :
                q'.links[k].guard_addr # NoAddr <=> q'.links[k].link_type = "list_item"]_vars

\* C30 happens: x[len(x)] makes no link, x[len(x) - 1] the link of the last
\* slot with the guard, and the local link before it has none.
C30_Witness ==
    /\ Walked
    /\ input.chain = <<NameOf("x"), IndexOf(Len(lists[1].items)),
                       IndexOf(Len(lists[1].items) - 1)>>
    /\ q.made = <<1, 3>>
    /\ q.links[1].guard_addr = NoAddr
    /\ q.links[2].link_type = "list_item"
    /\ q.links[2].storage_addr = <<"ob_item", lists[1].ob_item, Len(lists[1].items) - 1>>
    /\ q.links[2].guard_addr = <<"PyListObject.ob_item", 1, 0>>
    /\ q.cursors[3] = lists[1].items[Len(lists[1].items)]

\* ------------------------------------------------------ the attribute spec
\* The resolver applied to chains that reach the instance (the local o, the
\* global g) and fetch its attributes: a is in the instance's dict, b is a
\* shared key the instance has no value for, s is a slot, p a property of the
\* class that the instance's dict shadows in vain, __dict__ the dict itself;
\* with steps on the list x and on dicts, so that links of every kind occur.
MaxAttrChain == 3
AttrSteps == {NameOf("o"), NameOf("g"), NameOf("x"), IndexOf(1), KeyOf("a"), KeyOf("b"),
              AttrOf("a"), AttrOf("b"), AttrOf("s"), AttrOf("p"), AttrOf("__dict__")}
AttrChains == UNION {SeqsOfLen(AttrSteps, n) : n \in 1..MaxAttrChain}

NextAttr ==
    \/ Len(stack[MainThread]) = 0 /\ PyCall(MainThread, 1)
    \/ PyLine(MainThread)
    \/ setup.starts = 0 /\ ubeacon_trace_setup(MainThread)
    \/ FutureStep("ok")
    \/ ExistingStep
    \/ s_ubeacon_interact_resolve_watch_chain

InitAttr ==
    /\ Boot
    /\ input \in {[NoInput EXCEPT !.kind = "chain", !.chain = chain] : chain \in AttrChains}

SpecAttr == InitAttr /\ [][NextAttr]_vars

\* The step is the resolver walking the chain.
Walks == q' # q /\ q'.op = "resolve_watch_chain" /\ q'.walked

\* current_obj when step i of the walk began.
CursorAt(i) == IF i = 1 THEN NULL ELSE q'.cursors[i - 1]

\* The instance's own dict has an entry with a value for the name.
InOwnDict(obj, attr_name) ==
    /\ obj \in InstanceIds
    /\ \E e \in 1..Len(DictTab(4).dk_entries) :
          /\ DictTab(4).dk_entries[e].me_key = Str(attr_name)
          /\ ValueAt(DictTab(4), e) # NULL

\* Where the instance's own dict keeps the value of the name.
OwnDictSlot(attr_name) ==
    ValueSlot(DictTab(4), CHOOSE e \in 1..Len(DictTab(4).dk_entries) :
                              DictTab(4).dk_entries[e].me_key = Str(attr_name))

\* C31: an attribute step on a current_obj that is not NULL, when the fetch
\* of the attribute succeeds, makes a dict_attr link with the address of the
\* value in the instance's own dict exactly when that dict has the name, and
\* a slot_attr link with no storage address otherwise; either way the link's
\* value and current_obj are the value fetched; when the fetch fails no link
\* is made and no error is left set.
C31_AttrLinkByOwnDict ==
    [][Walks =>
          \A i \in Steps :
              (/\ IsStep(input.chain[i], {"attr"}) /\ cJSON_IsString(input.chain[i].name)
               /\ CursorAt(i) # NULL) =>
                  LET attr_name == input.chain[i].name.s
                      value == PyObject_GetAttrString(CursorAt(i), attr_name)
                  IN IF value = NULL
                     THEN i \notin SeqToSet(q'.made) /\ q'.err = "none"
                     ELSE /\ i \in SeqToSet(q'.made)
                          /\ q'.cursors[i] = value
                          /\ LinkOf(q', i) =
                                IF InOwnDict(CursorAt(i), attr_name)
                                THEN s_make_link(OwnDictSlot(attr_name), value,
                                                 "dict_attr", NoAddr)
                                ELSE s_make_link(NoAddr, value, "slot_attr", NoAddr)]_vars

\* C31 happens: o.b fails and is passed over, o.a is found in the dict and
\* o.s is not, in one walk.
C31_Witness ==
    /\ Walked
    /\ input.chain = <<NameOf("o"), AttrOf("b"), AttrOf("a")>>
    /\ q.made = <<1, 3>>
    /\ q.links[2].link_type = "dict_attr"
    /\ q.links[2].storage_addr = <<"values", 401, 1>>
    /\ q.cursors = <<3, 3, 10>>
    /\ q.err = "none"

\* ------------------------------------------------------- the bootstrap spec
\* Two threads, each running one function that raises and handles
\* exceptions; start() is called once, from the main thread; threads are
\* created before and after it, by threading or not, in either interpreter,
\* and stop() is called on any thread.
NextBoot ==
    \/ \E t \in Threads : stack[t] = <<>> /\ PyCall(t, ThreadCode[t])
    \/ \E t \in Threads : PyLine(t)
    \/ \E t \in Threads : PyReturn(t)
    \/ \E t \in Threads : PyRaise(t, "named")
    \/ \E t \in Threads : PyHandle(t)
    \/ \E t \in Threads, i \in SeqToSet(Interpreters), via \in {"threading", "other"} :
          NewThread(t, i, via)
    \/ setup.starts = 0 /\ ubeacon_trace_setup(MainThread)
    \/ FutureStep("ok")
    \/ ExistingStep
    \/ \E t \in Threads : s_ubeacon_stop(t)

SpecBoot == Init /\ [][NextBoot]_vars

\* The step is an event on thread t.
EventOn(t) ==
    /\ last' # last /\ last'.thread = t
    /\ last'.what \in {"call", "line", "return", "exception"}

\* The step is the first call event of a thread that threading started
\* after start(): what sys.settrace installed calls threading's hook.
Bootstrap(t) ==
    /\ EventOn(t) /\ last'.what = "call"
    /\ c_tracefunc[t] = <<"trampoline">>
    /\ trace_hook[interp[t]] = "ubeacon_trace_fn"

\* C32: the bootstrap call of a thread created by threading after start()
\* installs the tracker on every thread state of every interpreter, the new
\* thread's included, and leaves the new thread current; and every call,
\* line, return and exception event of a thread that has the tracker
\* installed enters the tracker, once.
C32_BootstrapInstallsEverywhere ==
    [][\A t \in Threads :
          /\ Bootstrap(t) =>
                /\ \A u \in Threads :
                      interp[u] # 0 => c_tracefunc'[u] = <<"s_trace_entry_point">>
                /\ tstate_current' = t
          /\ (EventOn(t) /\ c_tracefunc[t] = <<"s_trace_entry_point">>) =>
                last'.calls = 1]_vars

\* C32 happens: the call event of a second thread did not enter the
\* tracker (the thread had threading's hook installed), and when it is over
\* the tracker is installed on that thread and on the main thread, and the
\* new thread is current.
C32_Witness ==
    /\ last.thread # MainThread
    /\ last.what = "call" /\ last.calls = 0
    /\ setup.starts = 1
    /\ trace_hook[interp[last.thread]] = "ubeacon_trace_fn"
    /\ c_tracefunc[MainThread] = <<"s_trace_entry_point">>
    /\ c_tracefunc[last.thread] = <<"s_trace_entry_point">>
    /\ tstate_current = last.thread

\* ---------------------------------------------------------------- the hooks
HookOf(what) ==
    CASE what = "call" -> "s_ubeacon_trace_call"
      [] what = "line" -> "s_ubeacon_trace_line"
      [] what = "return" -> "s_ubeacon_trace_ret"
      [] OTHER -> "s_ubeacon_trace_exception"

\* The beacon b has the common fields of the last event's frame (a frame
\* that returned may have been freed with the event; its line is then read
\* where the event found it).
Overwritten(b) ==
    /\ b.current_frame = last'.frame
    /\ b.current_depth = last'.open
    /\ b.current_file = PyUnicode_AsUTF8(CodeTab[last'.code].co_filename)
    /\ b.current_func = PyUnicode_AsUTF8(CodeTab[last'.code].co_name)
    /\ b.current_file_id = s_ubeacon_simple_hash(b.current_file)
    /\ b.current_func_id = s_ubeacon_simple_hash(b.current_func)
    /\ b.current_line =
           PyFrame_GetLineNumber(IF heap'[last'.frame].f_code # 0 THEN heap' ELSE heap,
                                 last'.frame)

\* C33: a call, line, return or exception event calls one hook, that of its
\* kind, once, and the ExecutionState the hook finds has the fields of the
\* event's frame, with no exception state for a call, line or return event
\* and with the record, origin, type and id of this exception for an
\* exception event; an event of another kind calls no hook and leaves
\* first_line as it was, and its frame's fields are recorded and the
\* exception state cleared all the same.
C33_OneHookAfterOverwrite ==
    [][/\ \A what \in {"call", "line", "return", "exception"} :
             Processed(what) =>
                 /\ Len(last'.hooks) = 1
                 /\ last'.hooks[1].hook = HookOf(what)
                 /\ Overwritten(last'.hooks[1].at)
                 /\ what # "exception" => NoExceptionState(last'.hooks[1].at)
                 /\ what = "exception" =>
                       \E at \in {last'.hooks[1].at} :
                          /\ at.exception_info = s_ubeacon'.exception_info
                          /\ at.exception_info # NoArg
                          /\ at.exception_type = s_exception_type(at.exception_info).result
                          /\ at.exception_type_id = s_ubeacon_simple_hash(at.exception_type)
                          /\ at.exception_origin =
                                 s_is_exception_origin(at.exception_info, last'.frame).is_origin
       /\ Processed("opcode") =>
             /\ last'.hooks = <<>>
             /\ s_ubeacon'.first_line = s_ubeacon.first_line
             /\ Overwritten(s_ubeacon')
             /\ NoExceptionState(s_ubeacon')]_vars

\* C33 happens: the exception hook has run with the type, its id and the
\* origin of the exception in place.
C33_Witness ==
    /\ Traced /\ ~aborted
    /\ last.what = "exception"
    /\ Len(last.hooks) = 1
    /\ last.hooks[1].hook = "s_ubeacon_trace_exception"
    /\ last.hooks[1].at.current_frame = last.frame
    /\ last.hooks[1].at.exception_origin
    /\ last.hooks[1].at.exception_type # NULL
    /\ last.hooks[1].at.exception_type_id # U64Zero

\* ------------------------------------------------------------ after stop()
\* start() has returned and the main thread, which had the tracker from it,
\* has it no more: stop() was called there since. (SpecBoot calls start()
\* once, and nothing else takes the tracker off a thread.)
StoppedMain ==
    /\ setup.starts = 1 /\ setup.pc = "idle"
    /\ interp[MainThread] # 0
    /\ c_tracefunc[MainThread] = <<>>

\* C34: once stop() has been called on the main thread, whatever any thread
\* does next that is not a call of start() leaves the main thread without
\* the tracker, and no event of the main thread enters the tracker.
C34_StoppedUntilStart ==
    [][(StoppedMain /\ setup'.pc = "idle") =>
          /\ c_tracefunc'[MainThread] = <<>>
          /\ EventOn(MainThread) => last'.calls = 0]_vars

\* ------------------------------------------------------ what a slot holds
\* The value pointer read at a storage address: a fast local of a frame, an
\* element of a list's array, a value of a dict's values array or the
\* me_value of an entry of its keys object (read with the layout the
\* address was computed with; -1 stands for what a read with another layout
\* finds).
SlotValue(ls, addr) ==
    CASE addr[1] = "localsplus" -> localsplus(addr[2], addr[3])
      [] addr[1] = "ob_item" ->
            LET l == CHOOSE l \in ListIds : ls[l].ob_item = addr[2]
            IN ls[l].items[addr[3] + 1]
      [] addr[1] = "values" ->
            LET d == CHOOSE d \in DictIds : DictTab(d).ma_values.ptr = addr[2]
            IN DictTab(d).ma_values.values[addr[3]]
      [] OTHER ->
            LET d == CHOOSE d \in DictIds : DictTab(d).ma_keys = addr[2]
            IN IF addr[1] = EntryLayout(DictTab(d))
               THEN DictTab(d).dk_entries[addr[3]].me_value ELSE -1

\* C35: every link the resolver writes with a storage address has, as its
\* current value, the value pointer that is stored at that address when
\* the chain is resolved.
C35_StorageHoldsCurrentValue ==
    [][Walks =>
          \A i \in 1..Len(q'.links) :
             q'.links[i].storage_addr # NoAddr =>
                SlotValue(lists', q'.links[i].storage_addr) = q'.links[i].current_value]_vars

\* ------------------------------------------------- the lock and the file
\* C36: a query whose behaviour is defined has closed the file it opened,
\* and has called PyGILState_Release once if it called PyGILState_Ensure,
\* and not at all if it did not.
C36_LockReleasedFileClosed ==
    (q.op \in QueryOps /\ ~q.ub) =>
       /\ q.fopen = 1 /\ q.fclose = 1
       /\ q.ensure \in {0, 1} /\ q.release = q.ensure

\* ------------------------------------------- the references a dump leaves
\* C37: a frame-state dump whose behaviour is defined leaves every frame
\* on a thread's stack with the reference count it had, and the tracker
\* with its counted reference on current_frame.
C37_DumpKeepsReferenceCounts ==
    [][(Dumped /\ ~q'.ub) =>
          /\ \A t \in Threads : \A f \in SeqToSet(stack[t]) :
                OwnerCount(heap', stack', exc', s_ubeacon', f) + tracker_refs'[f]
                   = OwnerCount(heap, stack, exc, s_ubeacon, f) + tracker_refs[f]
          /\ (s_ubeacon.current_frame # NULL /\ tracker_refs[s_ubeacon.current_frame] = 1) =>
                tracker_refs'[s_ubeacon'.current_frame] = 1]_vars

====
